---- MODULE Spec2Model ----
(***************************************************************************)
(* A model of the StOBGA engine of src/src/main.rs: a steady-state genetic *)
(* algorithm for the obstacle-avoiding Steiner minimal tree problem.       *)
(*                                                                         *)
(* Numbers.  The program computes in f32.  The model computes in integers: *)
(* coordinates are points of an integer grid, and a length is kept in      *)
(* tenths of a grid unit, rounded down.  INF keeps its role (a weight no   *)
(* real length reaches) with a value TLC's 32-bit integers can add up.     *)
(*                                                                         *)
(* Randomness.  Every draw from the random generator is an input of the    *)
(* action that consumes it, ranging over all values the draw can return.   *)
(* A real number drawn from an interval is represented by the grid values  *)
(* and the half-way values between them, which is all a comparison with a  *)
(* grid coordinate can tell apart.                                         *)
(*                                                                         *)
(* Sizes.  POPULATION_SIZE (500 in the source) is scaled down, and the     *)
(* literals 500 and 166 of new and step with it; NUMBER_OFFSPRING keeps    *)
(* its definition, POPULATION_SIZE / 3, and its parity (even, as 166 is).  *)
(* The tournament size is the 5 of the source.  RECESSION_DURATION (500    *)
(* in the source) is scaled down as well.                                  *)
(*                                                                         *)
(* Methods.  A method of the engine that calls other methods is a run of   *)
(* actions, one per call or loop iteration; pc is the position in the      *)
(* method and frame holds its locals.  A panic (a failed assertion, a      *)
(* library call that refuses its arguments) ends the run at pc             *)
(* "panicked".                                                             *)
(***************************************************************************)
EXTENDS Integers, Sequences, FiniteSets, TLC

(***************************************************************************)
(* Bounds of the model                                                     *)
(***************************************************************************)
\* the largest number of Steiner points of an individual drawn as an input
MaxSteiner == 1

\* the largest number of included corners of an individual drawn as an input
MaxCorners == 2

\* the largest number of points the random branch of mutation_add_steiner
\* draws inside an impassable obstacle before it draws one outside
MaxResample == 1

\* function_evaluations is counted up to this value
MaxEvaluations == 3

\* the number of distances measured in one behaviour
MaxMeasured == 1

\* the most genes of a chromosome whose tree is compared with every spanning
\* tree of its graph
MaxTreeGenes == 2

\* the generations the engine is followed through
MaxGeneration == 1

\* the most Steiner points of a child the loop of main is followed through
MaxLoopSteiner == 0

\* the generations the loop of main is followed through
MaxLoopGeneration == 4

\* the most Strategy B seeds the engine is constructed with
MaxStrategyB == 1

(***************************************************************************)
(* Program constants                                                       *)
(***************************************************************************)
\* const INF: f32 = 1e10
INF == 100000000

\* const M_RANGE_MIN: f32 = 0.01, as a length: one grid unit is 0.01, so the
\* smallest step of a Steiner point is one grid unit, ten tenths
M_RANGE_MIN == 10

\* the 1e-2 of mutation_add_steiner, as a length: one grid unit
NEAR_DUPLICATE == 10

\* POPULATION_SIZE, 500 in the source, scaled down; like 500 it is at least
\* the tournament size and a third of it is even
POPULATION_SIZE == 6

\* NUMBER_OFFSPRING = POPULATION_SIZE / 3, which is also the literal 166 of
\* the assertion in step
NUMBER_OFFSPRING == POPULATION_SIZE \div 3

\* const RECESSION_DURATION: usize = 500, scaled down
RECESSION_DURATION == 2

\* the 0.01 / 100.0 main passes to is_improvement_by_factor, as its inverse
IMPROVEMENT_FACTOR_INVERSE == 10000

\* the size of every tournament: the 5 of tournament_select(5, _)
TOURNAMENT_SIZE == 5

(***************************************************************************)
(* Arithmetic helpers                                                      *)
(***************************************************************************)
Min2(a, b) == IF a <= b THEN a ELSE b

Max2(a, b) == IF a >= b THEN a ELSE b

Abs(a) == IF a < 0 THEN -a ELSE a

\* the integer square root: f32::sqrt, rounded down to the model's resolution
ISqrt(v) == CHOOSE r \in 0..(v + 1) : r * r <= v /\ (r + 1) * (r + 1) > v

RECURSIVE SumSeq(_)
SumSeq(s) == IF s = <<>> THEN 0 ELSE Head(s) + SumSeq(Tail(s))

RECURSIVE SetToSeq(_)
\* the elements of a finite set of comparable values, in ascending order
SetToSeq(S) ==
    IF S = {} THEN <<>>
    ELSE LET m == CHOOSE x \in S : \A y \in S : x <= y
         IN <<m>> \o SetToSeq(S \ {m})

SeqRange(s) == {s[i] : i \in 1..Len(s)}

(***************************************************************************)
(* Geometry kernel (mod geometry)                                          *)
(***************************************************************************)
\* geometry::Bounds::default(): an empty box, which any point widens
BoundsDefault == [min_x |-> INF, min_y |-> INF, max_x |-> -INF, max_y |-> -INF]

\* geometry::euclidean_distance, in tenths of a grid unit
euclidean_distance(p, q) ==
    ISqrt(100 * ((p[1] - q[1]) * (p[1] - q[1]) + (p[2] - q[2]) * (p[2] - q[2])))

\* geometry::overlap: do two axis-aligned boxes share a point
overlap(a_min_x, a_min_y, a_max_x, a_max_y, b_min_x, b_min_y, b_max_x, b_max_y) ==
    /\ a_min_x <= b_max_x
    /\ b_min_x <= a_max_x
    /\ a_min_y <= b_max_y
    /\ b_min_y <= a_max_y

\* the two ends, as numerators over den, of the part of p + t*d (t in [0,1])
\* that lies strictly between lo and hi on one axis; rest is den / |d|
AxisSpan(p, d, lo, hi, den, rest) ==
    IF d = 0
    THEN IF lo < p /\ p < hi THEN <<0, den>> ELSE <<den + 1, -1>>
    ELSE IF d > 0
         THEN <<(lo - p) * rest, (hi - p) * rest>>
         ELSE <<(p - hi) * rest, (p - lo) * rest>>

\* geometry::intersection_length: the length of the part of the segment
\* (fx,fy)-(tx,ty) strictly inside the polygon; 0 when the boxes do not
\* overlap.  The model's obstacles are axis-aligned rectangles, so the
\* polygon's interior is the interior of its bounding box.
intersection_length(fx, fy, tx, ty, points, bounds) ==
    IF ~overlap(Min2(fx, tx), Min2(fy, ty), Max2(fx, tx), Max2(fy, ty),
                bounds.min_x, bounds.min_y, bounds.max_x, bounds.max_y)
    THEN 0
    ELSE LET dx == tx - fx
             dy == ty - fy
             ax == IF dx = 0 THEN 1 ELSE Abs(dx)
             ay == IF dy = 0 THEN 1 ELSE Abs(dy)
             den == ax * ay
             sx == AxisSpan(fx, dx, bounds.min_x, bounds.max_x, den, ay)
             sy == AxisSpan(fy, dy, bounds.min_y, bounds.max_y, den, ax)
             lo == Max2(0, Max2(sx[1], sy[1]))
             hi == Min2(den, Min2(sx[2], sy[2]))
             num == Max2(0, hi - lo)
         IN ISqrt((100 * (dx * dx + dy * dy) * num * num) \div (den * den))

\* is p on the closed segment a-b
OnSegment(x, y, a, b) ==
    /\ (b[1] - a[1]) * (y - a[2]) = (b[2] - a[2]) * (x - a[1])
    /\ Min2(a[1], b[1]) <= x /\ x <= Max2(a[1], b[1])
    /\ Min2(a[2], b[2]) <= y /\ y <= Max2(a[2], b[2])

\* geometry::point_in_polygon: reject by the bounding box, then cast a ray
\* and count the polygon edges it crosses; a point of the boundary is not
\* inside (test_geometry6, test_geometry7, test_geometry8)
point_in_polygon(x, y, points, bounds) ==
    /\ bounds.min_x <= x /\ x <= bounds.max_x
    /\ bounds.min_y <= y /\ y <= bounds.max_y
    /\ LET n == Len(points)
           prev(i) == IF i = 1 THEN n ELSE i - 1
           crosses(i) ==
               LET a == points[i]
                   b == points[prev(i)]
               IN /\ (a[2] > y) # (b[2] > y)
                  /\ IF b[2] > a[2]
                     THEN (x - a[1]) * (b[2] - a[2]) < (b[1] - a[1]) * (y - a[2])
                     ELSE (x - a[1]) * (b[2] - a[2]) > (b[1] - a[1]) * (y - a[2])
       IN /\ \A i \in 1..n : ~OnSegment(x, y, points[i], points[prev(i)])
          /\ Cardinality({i \in 1..n : crosses(i)}) % 2 = 1

\* geometry::centroid: the arithmetic mean of three points
centroid(a, b, c) == <<(a[1] + b[1] + c[1]) \div 3, (a[2] + b[2] + c[2]) \div 3>>

(***************************************************************************)
(* Obstacle and SteinerProblem                                             *)
(***************************************************************************)
\* one step of the bounds loops of Obstacle::compute_bounds and
\* SteinerProblem::new: four independent ifs
WidenBounds(bounds, point) ==
    [min_x |-> IF point[1] < bounds.min_x THEN point[1] ELSE bounds.min_x,
     min_y |-> IF point[2] < bounds.min_y THEN point[2] ELSE bounds.min_y,
     max_x |-> IF point[1] > bounds.max_x THEN point[1] ELSE bounds.max_x,
     max_y |-> IF point[2] > bounds.max_y THEN point[2] ELSE bounds.max_y]

RECURSIVE BoundsOver(_, _)
BoundsOver(points, bounds) ==
    IF points = <<>> THEN bounds
    ELSE BoundsOver(Tail(points), WidenBounds(bounds, Head(points)))

\* Obstacle::new(weight, points).compute_bounds()
Obstacle(weight, points) ==
    [weight |-> weight, bounds |-> BoundsOver(points, BoundsDefault), points |-> points]

RECURSIVE Flatten(_)
Flatten(obstacles) ==
    IF obstacles = <<>> THEN <<>>
    ELSE Head(obstacles).points \o Flatten(Tail(obstacles))

\* SteinerProblem::new.  triangles is what delaunator::triangulate returns for
\* terminals ++ obstacle_corners: a flat list of vertex indices (from 1 here),
\* three per triangle; the constructor reads it through windows(3).
SteinerProblemNew(terminals, obstacles, triangles) ==
    LET obstacle_corners == Flatten(obstacles)
        vertices == terminals \o obstacle_corners
        centroids == [w \in 1..(IF Len(triangles) >= 3 THEN Len(triangles) - 2 ELSE 0) |->
                         centroid(vertices[triangles[w]], vertices[triangles[w + 1]],
                                  vertices[triangles[w + 2]])]
        n == Len(terminals)
        total == SumSeq([i \in 1..(n * n) |->
                     euclidean_distance(terminals[((i - 1) \div n) + 1],
                                        terminals[((i - 1) % n) + 1])])
    IN [terminals |-> terminals,
        obstacles |-> obstacles,
        obstacle_corners |-> obstacle_corners,
        centroids |-> centroids,
        bounds |-> BoundsOver(vertices, BoundsDefault),
        \* n = 1 gives 0.0 / 0.0 = NaN in the source; every comparison with NaN
        \* is false, which is how 0 behaves where this value is compared
        average_terminal_distance |->
            IF n * (n - 1) = 0 THEN 0 ELSE total \div (n * (n - 1))]

\* a test that finds no point inside an obstacle
coordinates_in_no_obstacle(problem_, coordinates) == FALSE

\* SteinerProblem::coordinates_in_solid_obstacle
coordinates_in_solid_obstacle(problem_, coordinates) ==
    \E i \in 1..Len(problem_.obstacles) :
        /\ problem_.obstacles[i].weight = INF
        /\ point_in_polygon(coordinates[1], coordinates[2],
                            problem_.obstacles[i].points, problem_.obstacles[i].bounds)

(***************************************************************************)
(* StOBGA::compute_distance                                                *)
(***************************************************************************)
RECURSIVE ObstacleLoopNoBreak(_, _, _, _, _)
\* the loop without its break: it goes on after an impassable obstacle
ObstacleLoopNoBreak(problem_, p1, p2, length, i) ==
    IF i > Len(problem_.obstacles) THEN length
    ELSE LET obstacle == problem_.obstacles[i]
             intersection_len ==
                 intersection_length(p1[1], p1[2], p2[1], p2[2],
                                     obstacle.points, obstacle.bounds)
         IN ObstacleLoopNoBreak(problem_, p1, p2,
                IF intersection_len > 0
                THEN IF obstacle.weight = INF THEN INF
                     ELSE length - intersection_len + intersection_len * obstacle.weight
                ELSE length,
                i + 1)

RECURSIVE ObstacleLoopByBox(_, _, _, _, _)
\* the loop with the bounding boxes deciding: an impassable obstacle whose box
\* the segment's box touches blocks the segment
ObstacleLoopByBox(problem_, p1, p2, length, i) ==
    IF i > Len(problem_.obstacles) THEN length
    ELSE LET obstacle == problem_.obstacles[i]
             bounds == obstacle.bounds
             intersection_len ==
                 intersection_length(p1[1], p1[2], p2[1], p2[2],
                                     obstacle.points, obstacle.bounds)
         IN IF overlap(Min2(p1[1], p2[1]), Min2(p1[2], p2[2]),
                       Max2(p1[1], p2[1]), Max2(p1[2], p2[2]),
                       bounds.min_x, bounds.min_y, bounds.max_x, bounds.max_y)
            THEN IF obstacle.weight = INF THEN INF
                 ELSE ObstacleLoopByBox(problem_, p1, p2,
                          length - intersection_len
                                 + intersection_len * obstacle.weight, i + 1)
            ELSE ObstacleLoopByBox(problem_, p1, p2, length, i + 1)

RECURSIVE ObstacleLoopUnordered(_, _, _, _, _)
\* the loop with line_bounds taken from p1 to p2 as they come, not ordered
\* by min and max
ObstacleLoopUnordered(problem_, p1, p2, length, i) ==
    IF i > Len(problem_.obstacles) THEN length
    ELSE LET obstacle == problem_.obstacles[i]
             bounds == obstacle.bounds
             intersection_len ==
                 intersection_length(p1[1], p1[2], p2[1], p2[2],
                                     obstacle.points, obstacle.bounds)
         IN IF overlap(p1[1], p1[2], p2[1], p2[2],
                       bounds.min_x, bounds.min_y, bounds.max_x, bounds.max_y)
               /\ intersection_len > 0
            THEN IF obstacle.weight = INF THEN INF
                 ELSE ObstacleLoopUnordered(problem_, p1, p2,
                          length - intersection_len
                                 + intersection_len * obstacle.weight, i + 1)
            ELSE ObstacleLoopUnordered(problem_, p1, p2, length, i + 1)

RECURSIVE ObstacleLoop(_, _, _, _, _)
\* the loop over the obstacles, from obstacle i on, with the length so far
ObstacleLoop(problem_, p1, p2, length, i) ==
    IF i > Len(problem_.obstacles) THEN length
    ELSE LET obstacle == problem_.obstacles[i]
             bounds == obstacle.bounds
         IN IF overlap(Min2(p1[1], p2[1]), Min2(p1[2], p2[2]),
                       Max2(p1[1], p2[1]), Max2(p1[2], p2[2]),
                       bounds.min_x, bounds.min_y, bounds.max_x, bounds.max_y)
            THEN LET intersection_len ==
                         intersection_length(p1[1], p1[2], p2[1], p2[2],
                                             obstacle.points, obstacle.bounds)
                 IN IF intersection_len > 0
                    THEN IF obstacle.weight = INF
                         THEN INF
                         ELSE ObstacleLoop(problem_, p1, p2,
                                  length - intersection_len
                                         + intersection_len * obstacle.weight,
                                  i + 1)
                    ELSE ObstacleLoop(problem_, p1, p2, length, i + 1)
            ELSE ObstacleLoop(problem_, p1, p2, length, i + 1)

compute_distance(problem_, from, to) ==
    ObstacleLoop(problem_, from, to, euclidean_distance(from, to), 1)

(***************************************************************************)
(* Chromosome, Individual, MinimumSpanningTree                             *)
(*                                                                         *)
(* steiner_points is a set of points and included_corners a set of indices *)
(* into obstacle_corners (from 0, as in the source).  An absent tree       *)
(* (Option::None) is NoTree.  A graph is its node weights (the points, in  *)
(* the order they were added) and its edges [a, b, w] in the order they    *)
(* were added, a and b being positions in nodes.                           *)
(***************************************************************************)
NoTree == [total_weight |-> -1, graph |-> [nodes |-> <<>>, edges |-> <<>>]]

Chromosome(steiner_points, included_corners) ==
    [steiner_points |-> steiner_points, included_corners |-> included_corners]

\* an Individual as crossover and StOBGA::new create it: no tree yet
NewIndividual(steiner_points, included_corners) ==
    [chromosome |-> Chromosome(steiner_points, included_corners),
     minimum_spanning_tree |-> NoTree]

\* problem.obstacle_corners[index]
Corner(problem_, index) == problem_.obstacle_corners[index + 1]

PointBefore(p, q) == p[1] < q[1] \/ (p[1] = q[1] /\ p[2] < q[2])

RECURSIVE PointsInOrder(_)
\* the iteration order of a set of points.  The order only decides which of
\* the equally light trees the builder returns, and the model returns every
\* one of them, so one fixed order stands for all.
PointsInOrder(S) ==
    IF S = {} THEN <<>>
    ELSE LET m == CHOOSE p \in S : \A q \in S \ {p} : PointBefore(p, q)
         IN <<m>> \o PointsInOrder(S \ {m})

(***************************************************************************)
(* StOBGA::build_mst                                                       *)
(***************************************************************************)
\* source_vertices: Steiner points, then corners by index, then terminals
SourceVertices(problem_, chromosome) ==
    LET corners == SetToSeq(chromosome.included_corners)
    IN PointsInOrder(chromosome.steiner_points)
       \o [i \in 1..Len(corners) |-> Corner(problem_, corners[i])]
       \o problem_.terminals

RECURSIVE Combinations2(_, _, _)
\* itertools combinations(2) of positions 1..n: <<1,2>>, <<1,3>>, ..., <<n-1,n>>
Combinations2(n, i, j) ==
    IF i >= n THEN <<>>
    ELSE IF j > n THEN Combinations2(n, i + 1, i + 2)
         ELSE <<<<i, j>>>> \o Combinations2(n, i, j + 1)

\* is the length between t1 and t2 in the cache, under either order of the keys
Cached(db, t1, t2) == <<t1, t2>> \in DOMAIN db \/ <<t2, t1>> \in DOMAIN db

\* the length of one pair: from edge_db under either order of the two keys,
\* computed when neither is there
EdgeLength(problem_, db, t1, t2) ==
    IF <<t1, t2>> \in DOMAIN db THEN db[<<t1, t2>>]
    ELSE IF <<t2, t1>> \in DOMAIN db THEN db[<<t2, t1>>]
    ELSE compute_distance(problem_, t1, t2)

RECURSIVE EdgeLoop(_, _, _, _, _)
RECURSIVE EdgeLoopBody(_, _, _, _, _, _)
\* the loop over the pairs
EdgeLoop(problem_, vertices, db, pairs, edges) ==
    IF pairs = <<>> THEN [edge_db |-> db, edges |-> edges]
    ELSE EdgeLoopBody(problem_, vertices, db, pairs, edges,
                      EdgeLength(problem_, db, vertices[Head(pairs)[1]],
                                 vertices[Head(pairs)[2]]))

\* EdgeLoopBody with an insertion under the first point alone
EdgeLoopBodyMiskeyed(problem_, vertices, db, pairs, edges, length) ==
    LET t1 == vertices[Head(pairs)[1]]
        t2 == vertices[Head(pairs)[2]]
    IN EdgeLoop(problem_, vertices,
                IF Cached(db, t1, t2) THEN db ELSE (<<t1, t1>> :> length) @@ db,
                Tail(pairs),
                Append(edges, [a |-> Head(pairs)[1], b |-> Head(pairs)[2],
                               w |-> length]))

\* EdgeLoopBody with the cache asked under the one order (t1, t2) only
EdgeLoopBodyOrdered(problem_, vertices, db, pairs, edges, length) ==
    LET t1 == vertices[Head(pairs)[1]]
        t2 == vertices[Head(pairs)[2]]
    IN EdgeLoop(problem_, vertices,
                IF <<t1, t2>> \in DOMAIN db THEN db
                ELSE (<<t1, t2>> :> length) @@ db,
                Tail(pairs),
                Append(edges, [a |-> Head(pairs)[1], b |-> Head(pairs)[2],
                               w |-> length]))

\* one pair, its length known: a computed length is inserted into the cache,
\* and the edge is added
EdgeLoopBody(problem_, vertices, db, pairs, edges, length) ==
    LET t1 == vertices[Head(pairs)[1]]
        t2 == vertices[Head(pairs)[2]]
    IN EdgeLoop(problem_, vertices,
                IF Cached(db, t1, t2) THEN db ELSE (<<t1, t2>> :> length) @@ db,
                Tail(pairs),
                Append(edges, [a |-> Head(pairs)[1], b |-> Head(pairs)[2],
                               w |-> length]))

\* the complete graph build_mst makes over the vertices, and the edge cache
\* afterwards
BuildGraph(problem_, db, vertices) ==
    EdgeLoop(problem_, vertices, db, Combinations2(Len(vertices), 1, 2), <<>>)

\* petgraph's UnionFind, as the map from a node to the least node joined to it
Union(comp, a, b) ==
    [v \in DOMAIN comp |->
        IF comp[v] = comp[a] \/ comp[v] = comp[b] THEN Min2(comp[a], comp[b])
        ELSE comp[v]]

RECURSIVE UnionAll(_, _)
UnionAll(comp, F) ==
    IF F = {} THEN comp
    ELSE LET e == CHOOSE e \in F : TRUE
         IN UnionAll(Union(comp, e.a, e.b), F \ {e})

Subgraphs(comp) == Cardinality({comp[v] : v \in DOMAIN comp})

RECURSIVE Kruskal(_, _, _)
\* the trees Kruskal's algorithm can return from here: the lightest edges that
\* still join two subgraphs are popped next, in an order the heap decides
Kruskal(comp, tree, rest) ==
    LET live == {e \in rest : comp[e.a] # comp[e.b]}
    IN IF live = {} THEN {tree}
       ELSE LET m == CHOOSE w \in {e.w : e \in live} : \A e \in live : w <= e.w
                lightest == {e \in live : e.w = m}
                joined == UnionAll(comp, lightest)
                taken == Subgraphs(comp) - Subgraphs(joined)
            IN UNION {Kruskal(joined, tree \cup F, live \ lightest) :
                        F \in {G \in SUBSET lightest :
                                  /\ Cardinality(G) = taken
                                  /\ UnionAll(comp, G) = joined}}

\* a spanning tree grown from the edges in the order they were added, whatever
\* they weigh
first_spanning_tree(n, edges) ==
    LET grow[i \in 0..Len(edges)] ==
            IF i = 0 THEN [comp |-> [v \in 1..n |-> v], tree |-> {}]
            ELSE LET e == edges[i]
                     sofar == grow[i - 1]
                 IN IF sofar.comp[e.a] # sofar.comp[e.b]
                    THEN [comp |-> Union(sofar.comp, e.a, e.b),
                          tree |-> sofar.tree \cup {e}]
                    ELSE sofar
    IN {grow[Len(edges)].tree}

\* petgraph::algo::min_spanning_tree over nodes 1..n and the edges added: the
\* edge sets it can return (one per way of breaking ties between equal weights)
min_spanning_tree(n, edges) ==
    Kruskal([v \in 1..n |-> v], {}, SeqRange(edges))

\* the edges of a graph in the order they were added, restricted to a set
EdgesIn(edges, tree) == SelectSeq(edges, LAMBDA e : e \in tree)

\* edge_weights().sum()
TotalWeight(edges) == SumSeq([i \in 1..Len(edges) |-> edges[i].w])

\* build_mst keeping every edge of the complete graph
BuildMstAllEdges(individual, vertices, looped, tree) ==
    [individual |->
        [individual EXCEPT !.minimum_spanning_tree =
            [total_weight |-> TotalWeight(EdgesIn(looped.edges, tree)),
             graph |-> [nodes |-> vertices, edges |-> looped.edges]]],
     edge_db |-> looped.edge_db,
     builds |-> 1]

\* BuildMst with a cache that keeps only the pairs of the vertices of this
\* build
BuildMstFlushing(individual, vertices, looped, tree) ==
    [individual |->
        [individual EXCEPT !.minimum_spanning_tree =
            [total_weight |-> TotalWeight(EdgesIn(looped.edges, tree)),
             graph |-> [nodes |-> vertices, edges |-> EdgesIn(looped.edges, tree)]]],
     edge_db |-> [key \in {k \in DOMAIN looped.edge_db :
                              \E i, j \in 1..Len(vertices) :
                                 i # j /\ k = <<vertices[i], vertices[j]>>}
                     |-> looped.edge_db[key]],
     builds |-> 1]

\* the end of build_mst, given the graph and the tree the builder returned:
\* the individual with its tree, the edge cache afterwards, and the one
\* evaluation counted
BuildMst(individual, vertices, looped, tree) ==
    [individual |->
        [individual EXCEPT !.minimum_spanning_tree =
            [total_weight |-> TotalWeight(EdgesIn(looped.edges, tree)),
             graph |-> [nodes |-> vertices, edges |-> EdgesIn(looped.edges, tree)]]],
     edge_db |-> looped.edge_db,
     builds |-> 1]

\* the outcomes of build_mst over a graph: one per tree the builder can return
BuildMstOver(individual, vertices, looped) ==
    {BuildMst(individual, vertices, looped, tree) :
        tree \in min_spanning_tree(Len(vertices), looped.edges)}

(***************************************************************************)
(* Graph queries of the mutation operators                                 *)
(***************************************************************************)
\* graph.edges(id).count()
Degree(graph, id) ==
    Cardinality({i \in 1..Len(graph.edges) :
                    graph.edges[i].a = id \/ graph.edges[i].b = id})

\* graph.node_indices().find(|id| graph[id] == point).unwrap(): the first
\* node with these coordinates
FindNode(graph, point) ==
    CHOOSE id \in 1..Len(graph.nodes) :
        /\ graph.nodes[id] = point
        /\ \A other \in 1..(id - 1) : graph.nodes[other] # point

\* the neighbours of a node
Neighbours(graph, id) ==
    {graph.edges[i].b : i \in {j \in 1..Len(graph.edges) : graph.edges[j].a = id}}
    \cup {graph.edges[i].a : i \in {j \in 1..Len(graph.edges) : graph.edges[j].b = id}}

\* angle < RADIANS_120_DEGREE for the angle at c1 between c2 and c3, that is
\* dot / den > cos(120 degrees) = -1/2; den = 0 gives NaN, which is not less
AngleBelow120(c1, c2, c3) ==
    LET v12 == <<c2[1] - c1[1], c2[2] - c1[2]>>
        v13 == <<c3[1] - c1[1], c3[2] - c1[2]>>
        dot == v12[1] * v13[1] + v12[2] * v13[2]
        n12 == v12[1] * v12[1] + v12[2] * v12[2]
        n13 == v13[1] * v13[1] + v13[2] * v13[2]
    IN /\ n12 * n13 > 0
       /\ (dot >= 0 \/ 4 * dot * dot < n12 * n13)

\* the candidates of mutation_add_steiner: a node and two of its neighbours
\* that subtend less than 120 degrees at it
AddCandidates(graph) ==
    {t \in (1..Len(graph.nodes)) \X (1..Len(graph.nodes)) \X (1..Len(graph.nodes)) :
        /\ t[2] < t[3]
        /\ {t[2], t[3]} \subseteq Neighbours(graph, t[1])
        /\ AngleBelow120(graph.nodes[t[1]], graph.nodes[t[2]], graph.nodes[t[3]])}

\* the points gen_range(min_x..max_x), gen_range(min_y..max_y) can return
InBounds(problem_) ==
    (problem_.bounds.min_x..(problem_.bounds.max_x - 1))
        \X (problem_.bounds.min_y..(problem_.bounds.max_y - 1))

\* geometry::fermat_point: the point with the least sum of distances to a, b
\* and c, here among the grid points of the box around them
fermat_point(a, b, c) ==
    LET box == (Min2(a[1], Min2(b[1], c[1]))..Max2(a[1], Max2(b[1], c[1])))
                  \X (Min2(a[2], Min2(b[2], c[2]))..Max2(a[2], Max2(b[2], c[2])))
        cost(p) == euclidean_distance(p, a) + euclidean_distance(p, b)
                      + euclidean_distance(p, c)
        best == {p \in box : \A q \in box : cost(p) <= cost(q)}
    IN CHOOSE p \in best : \A q \in best \ {p} : PointBefore(p, q)

(***************************************************************************)
(* Individual::mutation_remove_steiner                                     *)
(***************************************************************************)
\* candidate_steiner_points: the Steiner points whose node, found by its
\* coordinates, has at most two edges
CandidateSteinerPoints(individual) ==
    LET graph == individual.minimum_spanning_tree.graph
    IN SelectSeq(PointsInOrder(individual.chromosome.steiner_points),
                 LAMBDA steiner_point :
                     Degree(graph, FindNode(graph, steiner_point)) <= 2)

\* candidate_corners: the included corners whose node, found by the corner's
\* coordinates, has at most two edges
CandidateCorners(problem_, individual) ==
    LET graph == individual.minimum_spanning_tree.graph
    IN SelectSeq(SetToSeq(individual.chromosome.included_corners),
                 LAMBDA index_corner :
                     Degree(graph, FindNode(graph, Corner(problem_, index_corner))) <= 2)

\* the values the draws of mutation_remove_steiner can take: coin is the
\* gen_bool((n / m).clamp(0, 1)), drawn only when both lists are non-empty,
\* and pick the gen_range over the chosen list
RemoveDraws(problem_, individual) ==
    LET n == Len(CandidateSteinerPoints(individual))
        m == Len(CandidateCorners(problem_, individual))
    IN {d \in [coin : BOOLEAN, pick : 0..(Max2(Max2(n, m), 1) - 1)] :
           /\ (n = 0 \/ m = 0) => d.coin = (n > 0)
           /\ (n > 0 /\ m > 0 /\ n >= m) => d.coin
           /\ d.pick < (IF d.coin THEN Max2(n, 1) ELSE Max2(m, 1))}

\* remove-steiner taking every candidate out of the chromosome
mutation_remove_steiner_every_candidate(problem_, individual, draw) ==
    [chromosome |->
        [steiner_points |-> individual.chromosome.steiner_points
                               \ SeqRange(CandidateSteinerPoints(individual)),
         included_corners |-> individual.chromosome.included_corners
                               \ SeqRange(CandidateCorners(problem_, individual))],
     minimum_spanning_tree |-> NoTree]

mutation_remove_steiner(problem_, individual, draw) ==
    LET candidate_steiner_points == CandidateSteinerPoints(individual)
        candidate_corners == CandidateCorners(problem_, individual)
        n == Len(candidate_steiner_points)
        m == Len(candidate_corners)
        chromosome == individual.chromosome
        removed ==
            IF n = 0 /\ m = 0 THEN chromosome
            ELSE IF n = 0 \/ (m > 0 /\ ~draw.coin)
                 THEN [chromosome EXCEPT !.included_corners =
                          @ \ {candidate_corners[draw.pick + 1]}]
                 ELSE [chromosome EXCEPT !.steiner_points =
                          @ \ {candidate_steiner_points[draw.pick + 1]}]
    IN [chromosome |-> removed, minimum_spanning_tree |-> NoTree]

(***************************************************************************)
(* Individual::mutation_add_steiner                                        *)
(***************************************************************************)
RECURSIVE SeqsUpTo(_, _)
\* the sequences over S of length at most n
SeqsUpTo(S, n) ==
    IF n = 0 THEN {<<>>}
    ELSE LET shorter == SeqsUpTo(S, n - 1)
         IN shorter \cup {Append(q, x) : q \in shorter, x \in S}

\* the values the draws of mutation_add_steiner can take.  With candidates:
\* triple, the candidate gen_range picks.  Without: rejected, the points the
\* while loop drew and found inside an impassable obstacle, and point, the
\* first one it found outside.
AddDraws(problem_, individual) ==
    LET candidates == AddCandidates(individual.minimum_spanning_tree.graph)
        inside == {q \in InBounds(problem_) : coordinates_in_solid_obstacle(problem_, q)}
    IN IF candidates = {}
       THEN [triple : {<<0, 0, 0>>},
             rejected : SeqsUpTo(inside, MaxResample),
             point : InBounds(problem_) \ inside]
       ELSE [triple : candidates, rejected : {<<>>}, point : {<<0, 0>>}]

\* the point the Fermat branch computes for the drawn triple
FermatOf(individual, draw) ==
    LET graph == individual.minimum_spanning_tree.graph
    IN fermat_point(graph.nodes[draw.triple[1]], graph.nodes[draw.triple[2]],
                    graph.nodes[draw.triple[3]])

\* add-steiner that leaves the cached tree in place
mutation_add_steiner_keeping_tree(problem_, individual, draw) ==
    LET graph == individual.minimum_spanning_tree.graph
        steiner_points == individual.chromosome.steiner_points
        inserted ==
            IF AddCandidates(graph) = {}
            THEN steiner_points \cup {draw.point}
            ELSE LET p4 == FermatOf(individual, draw)
                 IN IF /\ ~coordinates_in_solid_obstacle(problem_, p4)
                       /\ \A q \in steiner_points :
                              euclidean_distance(q, p4) > NEAR_DUPLICATE
                    THEN steiner_points \cup {p4}
                    ELSE steiner_points
    IN [chromosome |-> [individual.chromosome EXCEPT !.steiner_points = inserted],
        minimum_spanning_tree |-> individual.minimum_spanning_tree]

\* add-steiner inserting the Fermat point whatever it lies in or near
mutation_add_steiner_untested(problem_, individual, draw) ==
    LET steiner_points == individual.chromosome.steiner_points
        inserted ==
            IF AddCandidates(individual.minimum_spanning_tree.graph) = {}
            THEN steiner_points \cup {draw.point}
            ELSE steiner_points \cup {FermatOf(individual, draw)}
    IN [chromosome |-> [individual.chromosome EXCEPT !.steiner_points = inserted],
        minimum_spanning_tree |-> NoTree]

mutation_add_steiner(problem_, individual, draw) ==
    LET graph == individual.minimum_spanning_tree.graph
        steiner_points == individual.chromosome.steiner_points
        inserted ==
            IF AddCandidates(graph) = {}
            THEN steiner_points \cup {draw.point}
            ELSE LET p4 == FermatOf(individual, draw)
                 IN IF /\ ~coordinates_in_solid_obstacle(problem_, p4)
                       /\ \A q \in steiner_points :
                              euclidean_distance(q, p4) > NEAR_DUPLICATE
                    THEN steiner_points \cup {p4}
                    ELSE steiner_points
    IN [chromosome |-> [individual.chromosome EXCEPT !.steiner_points = inserted],
        minimum_spanning_tree |-> NoTree]

(***************************************************************************)
(* Individual::mutation_flip_move                                          *)
(***************************************************************************)
\* m_range = average_terminal_distance * max(1 - generation / 1000, 0.01)
MRange(problem_, generation) ==
    (problem_.average_terminal_distance * Max2(1000 - generation, 10)) \div 1000

\* the lengths, in grid units, a step along one axis can have: drawn from
\* [M_RANGE_MIN, m_range) when m_range > M_RANGE_MIN, else M_RANGE_MIN itself
StepLengths(problem_, generation) ==
    IF MRange(problem_, generation) > M_RANGE_MIN
    THEN {d \in 1..(MRange(problem_, generation) \div 10) :
             10 * d < MRange(problem_, generation)}
    ELSE {1}

\* the values the draws of mutation_flip_move can take: moved maps each
\* Steiner point whose gen_bool(p_gene) came up true to its signed step, and
\* toggled holds the corner indices whose gen_bool(p_gene) came up true;
\* gen_bool(1.0), drawn when s + k <= 1, is always true
FlipMoveDraws(problem_, individual, generation) ==
    LET steiner_points == individual.chromosome.steiner_points
        s == Cardinality(steiner_points)
        k == Len(problem_.obstacle_corners)
        lengths == StepLengths(problem_, generation)
        steps == {<<sx * dx, sy * dy>> : sx \in {-1, 1}, sy \in {-1, 1},
                                          dx \in lengths, dy \in lengths}
        certain == s + k <= 1
    IN {[moved |-> f, toggled |-> t] :
            f \in UNION {[M -> steps] :
                           M \in IF certain THEN {steiner_points}
                                 ELSE SUBSET steiner_points},
            t \in IF certain THEN {0..(k - 1)} ELSE SUBSET (0..(k - 1))}

mutation_flip_move(problem_, individual, generation, draw) ==
    LET chromosome == individual.chromosome
        to_remove == DOMAIN draw.moved
        to_add == {<<q[1] + draw.moved[q][1], q[2] + draw.moved[q][2]>> :
                      q \in DOMAIN draw.moved}
        flipped == (chromosome.included_corners \ draw.toggled)
                      \cup (draw.toggled \ chromosome.included_corners)
    IN [chromosome |->
            Chromosome((chromosome.steiner_points \ to_remove) \cup to_add, flipped),
        minimum_spanning_tree |-> NoTree]

(***************************************************************************)
(* StOBGA::crossover                                                       *)
(***************************************************************************)
\* the values gen_range(min_x..max_x) can return, in half grid units: the
\* grid values from min_x up to max_x (excluded) and the values half-way
SplitValues(problem_) ==
    (2 * problem_.bounds.min_x)..(2 * problem_.bounds.max_x - 1)

\* crossover with the second parent's genes on the split line dropped
crossover_dropping_line(problem_, parent_1, parent_2, random_x_value) ==
    LET x(point) == 2 * point[1]
        cx(index) == 2 * Corner(problem_, index)[1]
    IN <<NewIndividual(
            {q \in parent_1.chromosome.steiner_points : x(q) < random_x_value}
            \cup {q \in parent_2.chromosome.steiner_points : x(q) > random_x_value},
            {i \in parent_1.chromosome.included_corners : cx(i) < random_x_value}
            \cup {i \in parent_2.chromosome.included_corners : cx(i) > random_x_value}),
         NewIndividual(
            {q \in parent_1.chromosome.steiner_points : ~(x(q) < random_x_value)}
            \cup {q \in parent_2.chromosome.steiner_points : x(q) < random_x_value},
            {i \in parent_1.chromosome.included_corners : ~(cx(i) < random_x_value)}
            \cup {i \in parent_2.chromosome.included_corners : cx(i) < random_x_value})>>

\* crossover with both parents split by the same rule
crossover_same_rule(problem_, parent_1, parent_2, random_x_value) ==
    LET x(point) == 2 * point[1]
        cx(index) == 2 * Corner(problem_, index)[1]
    IN <<NewIndividual(
            {q \in parent_1.chromosome.steiner_points
                    \cup parent_2.chromosome.steiner_points : x(q) < random_x_value},
            {i \in parent_1.chromosome.included_corners
                    \cup parent_2.chromosome.included_corners : cx(i) < random_x_value}),
         NewIndividual(
            {q \in parent_1.chromosome.steiner_points
                    \cup parent_2.chromosome.steiner_points : ~(x(q) < random_x_value)},
            {i \in parent_1.chromosome.included_corners
                    \cup parent_2.chromosome.included_corners : ~(cx(i) < random_x_value)})>>

\* crossover inserting a corner gene as its position counted from one
crossover_from_one(problem_, parent_1, parent_2, random_x_value) ==
    LET x(point) == 2 * point[1]
        cx(index) == 2 * Corner(problem_, index)[1]
    IN <<NewIndividual(
            {q \in parent_1.chromosome.steiner_points : x(q) < random_x_value}
            \cup {q \in parent_2.chromosome.steiner_points : x(q) > random_x_value},
            {i + 1 : i \in
                {j \in parent_1.chromosome.included_corners : cx(j) < random_x_value}
                \cup {j \in parent_2.chromosome.included_corners : cx(j) > random_x_value}}),
         NewIndividual(
            {q \in parent_1.chromosome.steiner_points : x(q) >= random_x_value}
            \cup {q \in parent_2.chromosome.steiner_points : x(q) <= random_x_value},
            {i + 1 : i \in
                {j \in parent_1.chromosome.included_corners : cx(j) >= random_x_value}
                \cup {j \in parent_2.chromosome.included_corners : cx(j) <= random_x_value}})>>

\* crossover comparing a corner gene by its index
crossover_by_index(problem_, parent_1, parent_2, random_x_value) ==
    LET x(point) == 2 * point[1]
        cx(index) == 2 * index
    IN <<NewIndividual(
            {q \in parent_1.chromosome.steiner_points : x(q) < random_x_value}
            \cup {q \in parent_2.chromosome.steiner_points : x(q) > random_x_value},
            {i \in parent_1.chromosome.included_corners : cx(i) < random_x_value}
            \cup {i \in parent_2.chromosome.included_corners : cx(i) > random_x_value}),
         NewIndividual(
            {q \in parent_1.chromosome.steiner_points : x(q) >= random_x_value}
            \cup {q \in parent_2.chromosome.steiner_points : x(q) <= random_x_value},
            {i \in parent_1.chromosome.included_corners : cx(i) >= random_x_value}
            \cup {i \in parent_2.chromosome.included_corners : cx(i) <= random_x_value})>>

\* the two children, in the order they are pushed to the child buffer;
\* random_x_value is in half grid units
crossover(problem_, parent_1, parent_2, random_x_value) ==
    LET x(point) == 2 * point[1]
        cx(index) == 2 * Corner(problem_, index)[1]
        steiner_points_1 ==
            {q \in parent_1.chromosome.steiner_points : x(q) < random_x_value}
            \cup {q \in parent_2.chromosome.steiner_points : x(q) > random_x_value}
        steiner_points_2 ==
            {q \in parent_1.chromosome.steiner_points : ~(x(q) < random_x_value)}
            \cup {q \in parent_2.chromosome.steiner_points : ~(x(q) > random_x_value)}
        obstacle_corners_1 ==
            {i \in parent_1.chromosome.included_corners : cx(i) < random_x_value}
            \cup {i \in parent_2.chromosome.included_corners : cx(i) > random_x_value}
        obstacle_corners_2 ==
            {i \in parent_1.chromosome.included_corners : ~(cx(i) < random_x_value)}
            \cup {i \in parent_2.chromosome.included_corners : ~(cx(i) > random_x_value)}
    IN <<NewIndividual(steiner_points_1, obstacle_corners_1),
         NewIndividual(steiner_points_2, obstacle_corners_2)>>

(***************************************************************************)
(* The state: the fields of StOBGA, the position of the running method,    *)
(* and a record of what the last operation did                             *)
(***************************************************************************)
VARIABLES
    problem,                \* StOBGA.problem
    population,             \* StOBGA.population
    child_buffer,           \* StOBGA.child_buffer
    current_generation,     \* StOBGA.current_generation
    function_evaluations,   \* StOBGA.function_evaluations, counted up to MaxEvaluations
    edge_db,                \* StOBGA.edge_db
    pc,                     \* where the running method stands
    frame,                  \* the local variables of the running method
    loop_data,              \* loop_data of main
    twin,                   \* a second engine stepped in lockstep
    op                      \* the last operation: its name, its draws, what it read

vars == <<problem, population, child_buffer, current_generation,
          function_evaluations, edge_db, pc, frame, loop_data, twin, op>>

\* no method is running
NoFrame == [indices_to_recombine |-> <<>>, cursor |-> 0, parents |-> <<>>,
            iterations |-> 0, seeds |-> <<0, 0, 0>>]

\* the second of two engines stepped in lockstep, as far as it is followed:
\* the order its hash set of parent indices iterates in, and the vector of
\* indices it recombines; empty while no second engine is followed
NoTwin == [iteration |-> <<>>, indices_to_recombine |-> <<>>]

\* loop_data as main sets it up before the loop
LoopDataNew == [state |-> "Running", streak_length |-> 0,
                previous_best_weight |-> INF]

NoOp == [name |-> "none"]

\* the grid points inside the bounds of a problem
GridPoints(problem_) ==
    (problem_.bounds.min_x..problem_.bounds.max_x)
        \X (problem_.bounds.min_y..problem_.bounds.max_y)

\* the chromosomes drawn as inputs
Chromosomes(problem_) ==
    {Chromosome(S, C) :
        S \in {T \in SUBSET GridPoints(problem_) : Cardinality(T) <= MaxSteiner},
        C \in {D \in SUBSET (0..(Len(problem_.obstacle_corners) - 1)) :
                  Cardinality(D) <= MaxCorners}}

\* function_evaluations += 1
Evaluated(count, builds) == Min2(count + builds, MaxEvaluations)

(***************************************************************************)
(* Problem instances                                                       *)
(***************************************************************************)
Rectangle(x0, y0, x1, y1) == <<<<x0, y0>>, <<x1, y0>>, <<x1, y1>>, <<x0, y1>>>>

\* two terminals left of one impassable square
SquareProblem ==
    SteinerProblemNew(<<<<0, 3>>, <<0, 0>>>>,
                      <<Obstacle(INF, Rectangle(1, 1, 3, 3))>>, <<>>)

\* two terminals left of one impassable rectangle, on a 3 by 2 grid
StripProblem ==
    SteinerProblemNew(<<<<0, 0>>, <<0, 1>>>>,
                      <<Obstacle(INF, Rectangle(1, 0, 2, 1))>>, <<>>)

\* two terminals left of one impassable triangle
WedgeProblem ==
    SteinerProblemNew(<<<<0, 0>>, <<0, 1>>>>,
                      <<Obstacle(INF, <<<<1, 0>>, <<2, 0>>, <<2, 1>>>>)>>, <<>>)

\* two terminals with the same x and no obstacle: bounds of width 0
LineProblem ==
    SteinerProblemNew(<<<<0, 0>>, <<0, 1>>>>, <<>>, <<>>)

\* three terminals at the corners of a triangle, no obstacle
TriangleProblem ==
    SteinerProblemNew(<<<<0, 0>>, <<2, 0>>, <<1, 2>>>>, <<>>, <<>>)

(***************************************************************************)
(* The methods of StOBGA as actions.  They leave pc and frame to the       *)
(* method that calls them.                                                 *)
(***************************************************************************)
\* build_mst(individual) for an individual that has no tree yet, as build_msts
\* and the mutate_* methods call it; nothing happens when it has one
Built(problem_, db, individual) ==
    IF individual.minimum_spanning_tree # NoTree
    THEN {[individual |-> individual, edge_db |-> db, builds |-> 0]}
    ELSE BuildMstOver(individual,
                      SourceVertices(problem_, individual.chromosome),
                      BuildGraph(problem_, db,
                                 SourceVertices(problem_, individual.chromosome)))

\* a method panicked: an assertion failed or a library call refused its
\* arguments
Panic(at) ==
    /\ pc' = "panicked"
    /\ op' = [name |-> "panic", at |-> at]
    /\ UNCHANGED <<problem, population, child_buffer, current_generation,
                   function_evaluations, edge_db, frame>>

\* self.crossover(parent_1_index, parent_2_index), indices from 1
Crossover(parent_1_index, parent_2_index) ==
    \E random_x_value \in SplitValues(problem) :
        LET children == crossover(problem, population[parent_1_index],
                                  population[parent_2_index], random_x_value)
        IN /\ child_buffer' = child_buffer \o children
           /\ op' = [name |-> "crossover",
                     parent_1 |-> population[parent_1_index],
                     parent_2 |-> population[parent_2_index],
                     random_x_value |-> random_x_value]
           /\ UNCHANGED <<problem, population, current_generation,
                          function_evaluations, edge_db>>

(***************************************************************************)
(* Crossover on its own: two built parents, one call                       *)
(***************************************************************************)
\* an individual of the population: a chromosome with one of its trees
SomeBuilt(problem_, chromosome) ==
    CHOOSE b \in Built(problem_, <<>>, [chromosome |-> chromosome,
                                        minimum_spanning_tree |-> NoTree]) : TRUE

\* the individuals the parents are drawn from
StripIndividuals ==
    {SomeBuilt(StripProblem, c) : c \in Chromosomes(StripProblem)}

\* the same on the problem whose bounds have no width
LineIndividuals ==
    {SomeBuilt(LineProblem, c) : c \in Chromosomes(LineProblem)}

\* the edge cache after build_mst has gone through an individual's pairs
CacheAfter(problem_, db, individual) ==
    BuildGraph(problem_, db, SourceVertices(problem_, individual.chromosome)).edge_db

InitCrossover ==
    /\ \/ /\ problem = StripProblem
          /\ \E b1, b2 \in StripIndividuals :
                /\ population = <<b1.individual, b2.individual>>
                /\ edge_db = CacheAfter(StripProblem, b1.edge_db, b2.individual)
       \/ /\ problem = LineProblem
          /\ \E b1, b2 \in LineIndividuals :
                /\ population = <<b1.individual, b2.individual>>
                /\ edge_db = CacheAfter(LineProblem, b1.edge_db, b2.individual)
    /\ child_buffer = <<>>
    /\ current_generation = 0
    /\ function_evaluations = 2
    /\ pc = "crossover"
    /\ frame = NoFrame
    /\ loop_data = LoopDataNew
    /\ op = NoOp
    /\ twin = NoTwin

\* one call of crossover; gen_range panics on an empty range
CrossoverCall ==
    /\ pc = "crossover"
    /\ IF SplitValues(problem) = {}
       THEN Panic("crossover: gen_range(min_x..max_x)")
       ELSE /\ \E parent_1_index, parent_2_index \in 1..Len(population) :
                  Crossover(parent_1_index, parent_2_index)
            /\ pc' = "done"
            /\ UNCHANGED frame
    /\ UNCHANGED loop_data
    /\ UNCHANGED twin

NextCrossover == CrossoverCall

SpecCrossover == InitCrossover /\ [][NextCrossover]_vars

\* C19: no core operation panics on a well-formed problem, the problems
\* whose bounds have no width included: a call of crossover returns
C19_CrossoverNeverPanics ==
    pc # "panicked"

\* the two children of the last crossover
Child1 == child_buffer[Len(child_buffer) - 1].chromosome
Child2 == child_buffer[Len(child_buffer)].chromosome
Parent1 == op.parent_1.chromosome
Parent2 == op.parent_2.chromosome

\* C3: after a crossover the Steiner points of the two children together are
\* exactly the Steiner points of the two parents together, and the corner
\* indices of the two children together are exactly those of the two parents.
C3_CrossoverPreservesUnion ==
    op.name = "crossover" =>
        /\ Child1.steiner_points \cup Child2.steiner_points
              = Parent1.steiner_points \cup Parent2.steiner_points
        /\ Child1.included_corners \cup Child2.included_corners
              = Parent1.included_corners \cup Parent2.included_corners

\* two different parents, each with a Steiner point and a corner, a gene of
\* the second parent on the split line, and both children non-empty
C3_Witness ==
    /\ op.name = "crossover"
    /\ Parent1 # Parent2
    /\ Parent1.steiner_points # {} /\ Parent1.included_corners # {}
    /\ Parent2.included_corners # {}
    /\ \E q \in Parent2.steiner_points : 2 * q[1] = op.random_x_value
    /\ Child1.steiner_points # {} /\ Child2.steiner_points # {}
    /\ Child1.included_corners # {} /\ Child2.included_corners # {}

\* C4 as stated: the two children of a crossover never share a Steiner point
\* or a corner index, whatever the parents.
C4_ChildrenDisjoint ==
    op.name = "crossover" =>
        /\ Child1.steiner_points \cap Child2.steiner_points = {}
        /\ Child1.included_corners \cap Child2.included_corners = {}

\* C4: the genes the two children of a crossover share are exactly the genes
\* both parents carry whose x coordinate differs from the split value; so the
\* children are disjoint when the parents share no gene, and a gene of both
\* parents (every gene, when a parent is crossed with itself) is in both
\* children unless it lies on the split line.
C4_ChildrenShareParentsCommonGenes ==
    op.name = "crossover" =>
        /\ Child1.steiner_points \cap Child2.steiner_points
              = {q \in Parent1.steiner_points \cap Parent2.steiner_points :
                    2 * q[1] # op.random_x_value}
        /\ Child1.included_corners \cap Child2.included_corners
              = {i \in Parent1.included_corners \cap Parent2.included_corners :
                    2 * Corner(problem, i)[1] # op.random_x_value}

\* a parent crossed with itself: a Steiner point and a corner off the split
\* line are in both children, a corner on the split line in one
C4_Witness ==
    /\ op.name = "crossover"
    /\ op.parent_1 = op.parent_2
    /\ Child1.steiner_points \cap Child2.steiner_points # {}
    /\ Child1.included_corners \cap Child2.included_corners # {}
    /\ \E i \in Parent1.included_corners :
          2 * Corner(problem, i)[1] = op.random_x_value

(***************************************************************************)
(* The distance function on its own: build_mst's cache misses, over a      *)
(* weighted and an impassable obstacle that overlap, in both orders        *)
(***************************************************************************)
WeightedSquare == Obstacle(2, Rectangle(1, 1, 3, 3))
SolidSquare == Obstacle(INF, Rectangle(2, 0, 4, 2))

DistanceProblems ==
    {SteinerProblemNew(<<<<0, 0>>, <<4, 3>>>>, obstacles, <<>>) :
        obstacles \in {<<WeightedSquare, SolidSquare>>, <<SolidSquare, WeightedSquare>>}}

InitDistance ==
    /\ problem \in DistanceProblems
    /\ population = <<>>
    /\ child_buffer = <<>>
    /\ current_generation = 0
    /\ function_evaluations = 0
    /\ edge_db = <<>>
    /\ pc = "build_mst"
    /\ frame = NoFrame
    /\ loop_data = LoopDataNew
    /\ op = NoOp
    /\ twin = NoTwin

\* one pair of build_mst's loop that is in the cache under neither order
Measure ==
    /\ pc = "build_mst"
    /\ Cardinality(DOMAIN edge_db) < MaxMeasured
    /\ \E t1, t2 \in GridPoints(problem) :
          /\ <<t1, t2>> \notin DOMAIN edge_db
          /\ <<t2, t1>> \notin DOMAIN edge_db
          /\ edge_db' = (<<t1, t2>> :> compute_distance(problem, t1, t2)) @@ edge_db
          /\ op' = [name |-> "compute_distance", from |-> t1, to |-> t2]
    /\ UNCHANGED <<problem, population, child_buffer, current_generation,
                   function_evaluations, pc, frame>>
    /\ UNCHANGED loop_data
    /\ UNCHANGED twin

NextDistance == Measure

SpecDistance == InitDistance /\ [][NextDistance]_vars

\* the length of the last segment measured that lies inside obstacle i
Crossed(i) ==
    intersection_length(op.from[1], op.from[2], op.to[1], op.to[2],
                        problem.obstacles[i].points, problem.obstacles[i].bounds)

\* the distance the last measurement stored
Measured == edge_db[<<op.from, op.to>>]

\* C9: when the segment between two points has zero intersection length with
\* every obstacle, the distance computed for them is their Euclidean distance.
C9_FreeSegmentIsEuclidean ==
    (op.name = "compute_distance"
        /\ \A i \in 1..Len(problem.obstacles) : Crossed(i) = 0)
    => Measured = euclidean_distance(op.from, op.to)

\* a segment that runs along the edge of the impassable square: the boxes
\* overlap, nothing of it is inside any obstacle
C9_Witness ==
    /\ op.name = "compute_distance"
    /\ op.from # op.to
    /\ \A i \in 1..Len(problem.obstacles) : Crossed(i) = 0
    /\ \E i \in 1..Len(problem.obstacles) :
          /\ problem.obstacles[i].weight = INF
          /\ overlap(Min2(op.from[1], op.to[1]), Min2(op.from[2], op.to[2]),
                     Max2(op.from[1], op.to[1]), Max2(op.from[2], op.to[2]),
                     problem.obstacles[i].bounds.min_x, problem.obstacles[i].bounds.min_y,
                     problem.obstacles[i].bounds.max_x, problem.obstacles[i].bounds.max_y)
    /\ Measured = euclidean_distance(op.from, op.to)

\* C10: when the segment crosses an impassable obstacle with positive
\* intersection length, the distance is exactly INF, whichever other obstacles
\* it crosses and wherever the impassable one stands in the list.
C10_BlockedDominates ==
    (op.name = "compute_distance"
        /\ \E i \in 1..Len(problem.obstacles) :
              problem.obstacles[i].weight = INF /\ Crossed(i) > 0)
    => Measured = INF

\* the segment crosses the impassable obstacle, listed first, and the
\* weighted one listed after it
C10_Witness ==
    /\ op.name = "compute_distance"
    /\ problem.obstacles[1].weight = INF /\ Crossed(1) > 0
    /\ problem.obstacles[2].weight # INF /\ Crossed(2) > 0
    /\ Measured = INF

\* C11: the length used for the edge between two points is the same
\* whichever of the two comes first, computed or served from the edge cache
C11_DistanceIsSymmetric ==
    op.name = "compute_distance" =>
        /\ compute_distance(problem, op.to, op.from)
              = compute_distance(problem, op.from, op.to)
        /\ EdgeLength(problem, edge_db, op.to, op.from)
              = EdgeLength(problem, edge_db, op.from, op.to)

\* a length through the weighted square is in the cache under one order of
\* its two points only
C11_Witness ==
    /\ op.name = "compute_distance"
    /\ op.from # op.to
    /\ <<op.to, op.from>> \notin DOMAIN edge_db
    /\ Measured # euclidean_distance(op.from, op.to)
    /\ Measured # INF
    /\ EdgeLength(problem, edge_db, op.to, op.from) = Measured

(***************************************************************************)
(* build_mst on its own: one child without a tree, one call                *)
(***************************************************************************)
\* build_mst(index, BufferSelector::ChildBuffer), index from 1
BuildMstChild(index) ==
    \E built \in Built(problem, edge_db, child_buffer[index]) :
        /\ child_buffer' = [child_buffer EXCEPT ![index] = built.individual]
        /\ edge_db' = built.edge_db
        /\ function_evaluations' = Evaluated(function_evaluations, built.builds)
        /\ op' = [name |-> "build_mst", index |-> index]
        /\ UNCHANGED <<problem, population, current_generation>>

InitMst ==
    /\ problem = SquareProblem
    /\ \E c \in Chromosomes(SquareProblem) :
          /\ Cardinality(c.steiner_points) + Cardinality(c.included_corners)
                <= MaxTreeGenes
          /\ child_buffer = <<[chromosome |-> c, minimum_spanning_tree |-> NoTree]>>
    /\ population = <<>>
    /\ current_generation = 0
    /\ function_evaluations = 0
    /\ edge_db = <<>>
    /\ pc = "build_mst"
    /\ frame = NoFrame
    /\ loop_data = LoopDataNew
    /\ op = NoOp
    /\ twin = NoTwin

BuildMstCall ==
    /\ pc = "build_mst"
    /\ \E index \in 1..Len(child_buffer) :
          /\ child_buffer[index].minimum_spanning_tree = NoTree
          /\ BuildMstChild(index)
    /\ pc' = "done"
    /\ UNCHANGED frame
    /\ UNCHANGED loop_data
    /\ UNCHANGED twin

NextMst == BuildMstCall

SpecMst == InitMst /\ [][NextMst]_vars

\* every individual the engine holds
Individuals == SeqRange(population) \cup SeqRange(child_buffer)

\* the complete graph build_mst makes for a chromosome: its edge weights
CompleteGraph(chromosome) ==
    BuildGraph(problem, edge_db, SourceVertices(problem, chromosome)).edges

\* is the edge set F a spanning tree of nodes 1..n
IsSpanningTree(n, F) ==
    /\ Cardinality(F) = n - 1
    /\ Subgraphs(UnionAll([v \in 1..n |-> v], F)) = 1

\* C7: the tree build_mst gives an individual weighs no more than any
\* spanning tree of the complete graph over the same vertices with the same
\* edge weights.
C7_MstIsLightest ==
    op.name = "build_mst" =>
        LET individual == child_buffer[op.index]
            n == Len(individual.minimum_spanning_tree.graph.nodes)
            edges == CompleteGraph(individual.chromosome)
        IN \A F \in SUBSET SeqRange(edges) :
              IsSpanningTree(n, F) =>
                 individual.minimum_spanning_tree.total_weight
                    <= TotalWeight(EdgesIn(edges, F))

\* a tree of four vertices was built over a graph that has a blocked edge, and
\* some spanning tree of that graph is heavier
C7_Witness ==
    /\ op.name = "build_mst"
    /\ LET individual == child_buffer[op.index]
           n == Len(individual.minimum_spanning_tree.graph.nodes)
           edges == CompleteGraph(individual.chromosome)
       IN /\ n = 4
          /\ \E e \in SeqRange(edges) : e.w = INF
          /\ individual.minimum_spanning_tree.total_weight < INF
          /\ \E F \in SUBSET SeqRange(edges) :
                /\ IsSpanningTree(n, F)
                /\ individual.minimum_spanning_tree.total_weight
                       < TotalWeight(EdgesIn(edges, F))

\* how many entries of a sequence equal a value
Count(seq, x) == Cardinality({i \in 1..Len(seq) : seq[i] = x})

\* the tree of an individual spans exactly its points: as many vertices at
\* each place as there are terminals, active Steiner points and active
\* corners there, one edge less than vertices, each edge one of the complete
\* graph with that graph's weight, all vertices connected, no edge to spare,
\* and the stored weight the sum of the edges' weights
SpansItsPoints(individual) ==
    LET chromosome == individual.chromosome
        graph == individual.minimum_spanning_tree.graph
        n == Len(graph.nodes)
        F == SeqRange(graph.edges)
        places == SeqRange(graph.nodes) \cup SeqRange(problem.terminals)
                     \cup chromosome.steiner_points
                     \cup {Corner(problem, i) : i \in chromosome.included_corners}
    IN /\ \A q \in places :
             Count(graph.nodes, q)
                = Count(problem.terminals, q)
                  + (IF q \in chromosome.steiner_points THEN 1 ELSE 0)
                  + Cardinality({i \in chromosome.included_corners :
                                    Corner(problem, i) = q})
       /\ Len(graph.edges) = n - 1
       /\ Cardinality(F) = n - 1
       /\ \A e \in F :
             /\ e.a \in 1..n /\ e.b \in 1..n /\ e.a # e.b
             /\ e.w = compute_distance(problem, graph.nodes[e.a], graph.nodes[e.b])
       /\ Subgraphs(UnionAll([v \in 1..n |-> v], F)) = 1
       /\ \A e \in F : Subgraphs(UnionAll([v \in 1..n |-> v], F \ {e})) > 1
       /\ individual.minimum_spanning_tree.total_weight
             = SumSeq([i \in 1..Len(graph.edges) |-> graph.edges[i].w])

\* C8: every tree an individual holds is a spanning tree over exactly its
\* terminals, active Steiner points and active corners, one vertex for each,
\* connected and acyclic with one edge less than vertices, and total_weight is
\* the sum of its edge weights.
C8_TreeSpansItsPoints ==
    \A individual \in Individuals :
        individual.minimum_spanning_tree # NoTree => SpansItsPoints(individual)

\* a tree was built for a chromosome whose Steiner point lies on a terminal
\* and which has an active corner: four vertices, two of them at one place
C8_Witness ==
    /\ op.name = "build_mst"
    /\ LET individual == child_buffer[op.index]
       IN /\ individual.minimum_spanning_tree # NoTree
          /\ individual.chromosome.included_corners # {}
          /\ \E q \in individual.chromosome.steiner_points :
                Count(problem.terminals, q) = 1
          /\ Len(individual.minimum_spanning_tree.graph.nodes) = 4

(***************************************************************************)
(* The mutate_* methods of StOBGA: the mutation of child_buffer[index]      *)
(* (index from 1) with the builds around it                                *)
(***************************************************************************)
\* the child buffer, edge cache and build counter after the last build
Mutated(index, name, before, draw, after, builds) ==
    /\ child_buffer' = [child_buffer EXCEPT ![index] = after.individual]
    /\ edge_db' = after.edge_db
    /\ function_evaluations' = Evaluated(function_evaluations, builds + after.builds)
    /\ op' = [name |-> name, index |-> index, before |-> before, draw |-> draw]
    /\ UNCHANGED <<problem, population, current_generation>>

MutateFlipMove(index) ==
    \E draw \in FlipMoveDraws(problem, child_buffer[index], current_generation) :
        \E after \in Built(problem, edge_db,
                           mutation_flip_move(problem, child_buffer[index],
                                              current_generation, draw)) :
            Mutated(index, "mutation_flip_move", child_buffer[index], draw, after, 0)

\* mutate_add_steiner without the build in front of the operator
MutateAddSteinerUnbuilt(index) ==
    \E draw \in AddDraws(problem, child_buffer[index]) :
        \E after \in Built(problem, edge_db,
                           mutation_add_steiner(problem, child_buffer[index], draw)) :
            Mutated(index, "mutation_add_steiner", child_buffer[index], draw, after, 0)

MutateAddSteiner(index) ==
    \E before \in Built(problem, edge_db, child_buffer[index]) :
        \E draw \in AddDraws(problem, before.individual) :
            \E after \in Built(problem, before.edge_db,
                               mutation_add_steiner(problem, before.individual, draw)) :
                Mutated(index, "mutation_add_steiner", before.individual, draw,
                        after, before.builds)

MutateRemoveSteiner(index) ==
    \E before \in Built(problem, edge_db, child_buffer[index]) :
        \E draw \in RemoveDraws(problem, before.individual) :
            \E after \in Built(problem, before.edge_db,
                               mutation_remove_steiner(problem, before.individual, draw)) :
                Mutated(index, "mutation_remove_steiner", before.individual, draw,
                        after, before.builds)

(***************************************************************************)
(* add-steiner and remove-steiner on their own: one child as crossover     *)
(* leaves it, mutated once                                                 *)
(***************************************************************************)
InitMutate ==
    /\ problem = SquareProblem
    /\ \E c \in Chromosomes(SquareProblem) :
          child_buffer = <<[chromosome |-> c, minimum_spanning_tree |-> NoTree]>>
    /\ population = <<>>
    /\ current_generation = 0
    /\ function_evaluations = 0
    /\ edge_db = <<>>
    /\ pc = "mutate"
    /\ frame = NoFrame
    /\ loop_data = LoopDataNew
    /\ op = NoOp
    /\ twin = NoTwin

AddSteinerCall ==
    /\ pc = "mutate"
    /\ \E index \in 1..Len(child_buffer) : MutateAddSteiner(index)
    /\ pc' = "done"
    /\ UNCHANGED frame
    /\ UNCHANGED loop_data
    /\ UNCHANGED twin

RemoveSteinerCall ==
    /\ pc = "mutate"
    /\ \E index \in 1..Len(child_buffer) : MutateRemoveSteiner(index)
    /\ pc' = "done"
    /\ UNCHANGED frame
    /\ UNCHANGED loop_data
    /\ UNCHANGED twin

NextMutate == AddSteinerCall \/ RemoveSteinerCall

SpecMutate == InitMutate /\ [][NextMutate]_vars

\* the position of x in a sequence without repetitions
Position(seq, x) == CHOOSE i \in 1..Len(seq) : seq[i] = x

\* the vertex build_mst made for a Steiner point, and for an active corner,
\* of an individual
SteinerNode(individual, steiner_point) ==
    Position(PointsInOrder(individual.chromosome.steiner_points), steiner_point)

CornerNode(individual, index_corner) ==
    Cardinality(individual.chromosome.steiner_points)
        + Position(SetToSeq(individual.chromosome.included_corners), index_corner)

\* the individual the last mutation left in the child buffer
After == child_buffer[op.index]

\* C5 as stated: remove-steiner never removes a Steiner point or an active
\* corner whose own vertex has more than two edges in the individual's tree,
\* also when several points of the individual have the same coordinates.
C5_RemovedVertexHasDegreeAtMost2 ==
    op.name = "mutation_remove_steiner" =>
        LET graph == op.before.minimum_spanning_tree.graph
        IN /\ \A q \in op.before.chromosome.steiner_points
                          \ After.chromosome.steiner_points :
                 Degree(graph, SteinerNode(op.before, q)) <= 2
           /\ \A i \in op.before.chromosome.included_corners
                          \ After.chromosome.included_corners :
                 Degree(graph, CornerNode(op.before, i)) <= 2

\* is a point inside an obstacle whose weight is INF
InsideImpassable(q) ==
    \E i \in 1..Len(problem.obstacles) :
        /\ problem.obstacles[i].weight = INF
        /\ point_in_polygon(q[1], q[2], problem.obstacles[i].points,
                            problem.obstacles[i].bounds)

\* C6: add-steiner puts no Steiner point that is inside an impassable
\* obstacle into the chromosome: the point the random branch inserts is
\* outside every impassable obstacle, and the Fermat branch leaves the Steiner
\* points as they are when the Fermat point is inside one.
C6_AddedPointOutsideImpassable ==
    op.name = "mutation_add_steiner" =>
        /\ \A q \in After.chromosome.steiner_points
                       \ op.before.chromosome.steiner_points :
              ~InsideImpassable(q)
        /\ (AddCandidates(op.before.minimum_spanning_tree.graph) # {}
              /\ InsideImpassable(FermatOf(op.before, op.draw)))
           => After.chromosome.steiner_points
                 = op.before.chromosome.steiner_points

\* the random branch drew a point inside the impassable square, drew again,
\* and inserted a point outside it
C6_Witness ==
    /\ op.name = "mutation_add_steiner"
    /\ AddCandidates(op.before.minimum_spanning_tree.graph) = {}
    /\ op.draw.rejected # <<>>
    /\ \A i \in 1..Len(op.draw.rejected) : InsideImpassable(op.draw.rejected[i])
    /\ op.draw.point \in After.chromosome.steiner_points
    /\ op.draw.point \notin op.before.chromosome.steiner_points

\* rand::seq::index::sample(rng, length, amount): amount different indices
\* out of 1..length, which come in a random order
Samples(length, amount) ==
    {sample \in SUBSET (1..length) : Cardinality(sample) = amount}

\* the indices a tournament over one sample can return: min_by gives the
\* first of the lightest and max_by the last of the heaviest, and in the
\* random order of the sample any of them can be that one
Winners(sample, to_die) ==
    LET w(i) == population[i].minimum_spanning_tree.total_weight
    IN IF to_die
       THEN {i \in sample : \A j \in sample : w(j) <= w(i)}
       ELSE {i \in sample : \A j \in sample : w(i) <= w(j)}

\* the indices tournament_select(size, to_die) can return; sample panics when
\* the population is smaller than size
tournament_select(size, to_die) ==
    UNION {Winners(sample, to_die) : sample \in Samples(Len(population), size)}

(***************************************************************************)
(* StOBGA::new                                                             *)
(***************************************************************************)
\* the problem the engine runs on: two terminals, no obstacle
EngineProblem == SteinerProblemNew(<<<<0, 0>>, <<1, 1>>>>, <<>>, <<>>)

\* the population sizes the engine is constructed with: main passes
\* POPULATION_SIZE
PopulationSizes == {POPULATION_SIZE}

\* the seed counts the engine is constructed with
SeedCounts(population_size) ==
    {t \in (0..population_size) \X (0..MaxStrategyB) \X (0..population_size) :
        t[1] + t[2] + t[3] <= population_size}

\* Strategy A: the centroids as Steiner points, no corner
SeedsA(problem_) ==
    {NewIndividual(SeqRange(problem_.centroids), {})}

\* Strategy B with r drawn from 0..=(n + k)
SeedsBInclusive(problem_, most) ==
    LET k == Len(problem_.obstacle_corners)
        n == Len(problem_.terminals)
    IN {NewIndividual(S, 0..(k - 1)) :
           S \in {T \in SUBSET InBounds(problem_) :
                     /\ Cardinality(T) <= n + k
                     /\ Cardinality(T) <= most}}

\* Strategy B: r points drawn in the bounds, r from 0..(n + k), every corner;
\* the individuals of at most most Steiner points
SeedsBWithin(problem_, most) ==
    LET k == Len(problem_.obstacle_corners)
        n == Len(problem_.terminals)
    IN {NewIndividual(S, 0..(k - 1)) :
           S \in {T \in SUBSET InBounds(problem_) :
                     /\ Cardinality(T) <= n + k - 1
                     /\ Cardinality(T) <= most}}

SeedsB(problem_) == SeedsBWithin(problem_, MaxSteiner)

\* Strategy C: no Steiner point, amount corners drawn from the k, amount
\* from 0..(k + 1)
SeedsC(problem_) ==
    {NewIndividual({}, C) : C \in SUBSET (0..(Len(problem_.obstacle_corners) - 1))}

\* the populations the three loops can push
SeedPopulations(problem_, t1, t2, t3) ==
    {a \o b \o c : a \in [1..t1 -> SeedsA(problem_)],
                   b \in [1..t2 -> SeedsB(problem_)],
                   c \in [1..t3 -> SeedsC(problem_)]}

RECURSIVE BuildMsts(_, _, _, _, _)
\* build_msts from position index on: the populations, edge caches and
\* numbers of builds it can end with
BuildMsts(problem_, db, individuals, index, builds) ==
    IF index > Len(individuals)
    THEN {[population |-> individuals, edge_db |-> db, builds |-> builds]}
    ELSE UNION {BuildMsts(problem_, b.edge_db,
                          [individuals EXCEPT ![index] = b.individual],
                          index + 1, builds + b.builds) :
                   b \in Built(problem_, db, individuals[index])}

\* StOBGA::mutate(index), index from 1: one of the three operators, by two
\* gen_bool draws
Mutate(index) ==
    \/ MutateFlipMove(index)
    \/ MutateAddSteiner(index)
    \/ MutateRemoveSteiner(index)

\* the individuals the engine is followed through: at most MaxSteiner Steiner
\* points, all on the grid inside the bounds
FollowedWithin(individual, most) ==
    /\ Cardinality(individual.chromosome.steiner_points) <= most
    /\ individual.chromosome.steiner_points \subseteq GridPoints(problem)

Followed(individual) == FollowedWithin(individual, MaxSteiner)

\* before the constructor runs
Init ==
    /\ problem = EngineProblem
    /\ population = <<>>
    /\ child_buffer = <<>>
    /\ current_generation = 0
    /\ function_evaluations = 0
    /\ edge_db = <<>>
    /\ pc = "new"
    /\ frame = NoFrame
    /\ loop_data = LoopDataNew
    /\ op = NoOp
    /\ twin = NoTwin

\* the three seeding loops and the struct
NewSeed ==
    /\ pc = "new"
    /\ \E population_size \in PopulationSizes :
          \E t \in SeedCounts(population_size) :
             /\ population' \in SeedPopulations(problem, t[1], t[2], t[3])
             /\ frame' = [NoFrame EXCEPT
                             !.iterations = population_size - (t[1] + t[2] + t[3]),
                             !.seeds = t]
             /\ op' = [name |-> "seed", population_size |-> population_size,
                       t1 |-> t[1], t2 |-> t[2], t3 |-> t[3]]
    /\ pc' = "new_build_msts"
    /\ UNCHANGED <<problem, child_buffer, current_generation,
                   function_evaluations, edge_db>>
    /\ UNCHANGED loop_data
    /\ UNCHANGED twin

\* stobga.build_msts() over the seeds
NewBuildMsts ==
    /\ pc = "new_build_msts"
    /\ \E built \in BuildMsts(problem, edge_db, population, 1, 0) :
          /\ population' = built.population
          /\ edge_db' = built.edge_db
          /\ function_evaluations' = Evaluated(function_evaluations, built.builds)
    /\ pc' = "new_fill"
    /\ op' = [name |-> "build_msts"]
    /\ UNCHANGED <<problem, child_buffer, current_generation, frame>>
    /\ UNCHANGED loop_data
    /\ UNCHANGED twin

\* one iteration of the fill loop begins: the two tournaments
NewSelect ==
    /\ pc = "new_fill"
    /\ frame.cursor < frame.iterations
    /\ IF Len(population) < TOURNAMENT_SIZE
       THEN Panic("new: tournament_select")
       ELSE /\ \E p1, p2 \in tournament_select(TOURNAMENT_SIZE, FALSE) :
                  frame' = [frame EXCEPT !.parents = <<p1, p2>>]
            /\ pc' = "new_crossover"
            /\ op' = [name |-> "tournament_select"]
            /\ UNCHANGED <<problem, population, child_buffer, current_generation,
                           function_evaluations, edge_db>>
    /\ UNCHANGED loop_data
    /\ UNCHANGED twin

NewCrossover ==
    /\ pc = "new_crossover"
    /\ Crossover(frame.parents[1], frame.parents[2])
    /\ pc' = "new_mutate_last"
    /\ frame' = [frame EXCEPT !.parents = <<>>]
    /\ UNCHANGED loop_data
    /\ UNCHANGED twin

\* stobga.mutate(stobga.child_buffer.len() - 1)
NewMutateLast ==
    /\ pc = "new_mutate_last"
    /\ Mutate(Len(child_buffer))
    /\ Followed(child_buffer'[Len(child_buffer)])
    /\ pc' = "new_mutate_second"
    /\ UNCHANGED frame
    /\ UNCHANGED loop_data
    /\ UNCHANGED twin

\* the second mutate of the fill loop given the index of the first
NewMutateLastAgain ==
    /\ pc = "new_mutate_second"
    /\ Mutate(Len(child_buffer))
    /\ Followed(child_buffer'[Len(child_buffer)])
    /\ pc' = "new_check"
    /\ UNCHANGED <<frame, loop_data, twin>>

\* stobga.mutate(stobga.child_buffer.len() - 2)
NewMutateSecond ==
    /\ pc = "new_mutate_second"
    /\ Mutate(Len(child_buffer) - 1)
    /\ Followed(child_buffer'[Len(child_buffer) - 1])
    /\ pc' = "new_check"
    /\ UNCHANGED frame
    /\ UNCHANGED loop_data
    /\ UNCHANGED twin

\* the end of an iteration: once the population and the children number
\* POPULATION_SIZE, children over that are popped and the loop is left
NewCheck ==
    /\ pc = "new_check"
    /\ IF Len(population) + Len(child_buffer) >= POPULATION_SIZE
       THEN /\ child_buffer' = SubSeq(child_buffer, 1,
                                      Min2(Len(child_buffer),
                                           POPULATION_SIZE - Len(population)))
            /\ pc' = "new_finish"
            /\ frame' = frame
       ELSE /\ child_buffer' = child_buffer
            /\ pc' = "new_fill"
            /\ frame' = [frame EXCEPT !.cursor = @ + 1]
    /\ op' = [name |-> "check"]
    /\ UNCHANGED <<problem, population, current_generation,
                   function_evaluations, edge_db>>
    /\ UNCHANGED loop_data
    /\ UNCHANGED twin

\* the end of new with the children copied to the population and left in
\* the child buffer
NewFinishKeepingChildren ==
    /\ \/ pc = "new_finish"
       \/ pc = "new_fill" /\ frame.cursor >= frame.iterations
    /\ \E built \in BuildMsts(problem, edge_db, population \o child_buffer, 1, 0) :
          /\ population' = built.population
          /\ edge_db' = built.edge_db
          /\ function_evaluations' = Evaluated(function_evaluations, built.builds)
    /\ IF Len(population') = POPULATION_SIZE
       THEN pc' = "running" /\ op' = [name |-> "new"]
       ELSE Panic("new: assert_eq!(population.len(), POPULATION_SIZE)")
    /\ frame' = NoFrame
    /\ UNCHANGED <<problem, child_buffer, current_generation, loop_data, twin>>

\* after the loop: append the children, build_msts, the assertion
NewFinish ==
    /\ \/ pc = "new_finish"
       \/ pc = "new_fill" /\ frame.cursor >= frame.iterations
    /\ \E built \in BuildMsts(problem, edge_db, population \o child_buffer, 1, 0) :
          /\ population' = built.population
          /\ edge_db' = built.edge_db
          /\ function_evaluations' = Evaluated(function_evaluations, built.builds)
    /\ child_buffer' = <<>>
    /\ IF Len(population') = POPULATION_SIZE
       THEN pc' = "running" /\ op' = [name |-> "new"]
       ELSE pc' = "panicked"
            /\ op' = [name |-> "panic",
                      at |-> "new: assert_eq!(population.len(), POPULATION_SIZE)"]
    /\ frame' = NoFrame
    /\ UNCHANGED <<problem, current_generation>>
    /\ UNCHANGED loop_data
    /\ UNCHANGED twin

(***************************************************************************)
(* StOBGA::step                                                            *)
(***************************************************************************)
\* Vec::remove(index), index from 1, leaving the vector as it was
NotRemoved(individuals, index) == individuals

\* Vec::remove(index), index from 1
Removed(individuals, index) ==
    SubSeq(individuals, 1, index - 1)
        \o SubSeq(individuals, index + 1, Len(individuals))

\* a vector of as many indices of the set, one of them possibly twice
ShuffledWithRepeats(indices) == [1..Cardinality(indices) -> indices]

\* the orders a set of indices can be shuffled into
Shuffled(indices) ==
    {order \in [1..Cardinality(indices) -> indices] :
        \A i, j \in DOMAIN order : i < j => order[i] # order[j]}

\* sort_unstable_by left out: the individuals as append left them
sort_unstable_by_as_appended(individuals) == {individuals}

RECURSIVE sort_unstable_by(_)
\* the orders sort_unstable_by can leave the individuals in: ascending
\* total_weight, equal weights in any order
sort_unstable_by(individuals) ==
    IF individuals = <<>> THEN {<<>>}
    ELSE LET w(i) == individuals[i].minimum_spanning_tree.total_weight
             least == {i \in DOMAIN individuals :
                          \A j \in DOMAIN individuals : w(i) <= w(j)}
             others(i) == SubSeq(individuals, 1, i - 1)
                             \o SubSeq(individuals, i + 1, Len(individuals))
         IN UNION {{<<individuals[i]>> \o rest :
                       rest \in sort_unstable_by(others(i))} : i \in least}

\* the loop that draws parents until NUMBER_OFFSPRING different indices are
\* in the set, then sorted and shuffle
StepBegin(more) ==
    /\ pc = "running"
    /\ more
    /\ IF Len(population) < TOURNAMENT_SIZE
       THEN Panic("step: tournament_select")
       ELSE /\ \E chosen \in SUBSET tournament_select(TOURNAMENT_SIZE, FALSE) :
                  /\ Cardinality(chosen) = NUMBER_OFFSPRING
                  /\ \E order \in Shuffled(chosen) :
                        frame' = [NoFrame EXCEPT !.indices_to_recombine = order]
            /\ pc' = "step_crossover"
            /\ op' = [name |-> "tournament_select"]
            /\ UNCHANGED <<problem, population, child_buffer, current_generation,
                           function_evaluations, edge_db>>
    /\ UNCHANGED loop_data
    /\ UNCHANGED twin

\* step called again and again, MaxGeneration times
StepSelect == StepBegin(current_generation < MaxGeneration)

\* the pairing loop, one pair at a time; an index left without a partner is
\* not recombined
StepCrossover ==
    /\ pc = "step_crossover"
    /\ frame.cursor + 2 <= Len(frame.indices_to_recombine)
    /\ Crossover(frame.indices_to_recombine[frame.cursor + 1],
                 frame.indices_to_recombine[frame.cursor + 2])
    /\ IF frame.cursor + 4 <= Len(frame.indices_to_recombine)
       THEN pc' = "step_crossover" /\ frame' = [frame EXCEPT !.cursor = @ + 2]
       ELSE pc' = "step_mutate" /\ frame' = NoFrame
    /\ UNCHANGED loop_data
    /\ UNCHANGED twin

\* for i in 0..child_buffer.len(): mutate(i), one child at a time
StepMutateWithin(most) ==
    /\ pc = "step_mutate"
    /\ frame.cursor < Len(child_buffer)
    /\ Mutate(frame.cursor + 1)
    /\ FollowedWithin(child_buffer'[frame.cursor + 1], most)
    /\ IF frame.cursor + 1 < Len(child_buffer)
       THEN pc' = "step_mutate" /\ frame' = [frame EXCEPT !.cursor = @ + 1]
       ELSE pc' = "step_eliminate" /\ frame' = NoFrame
    /\ UNCHANGED loop_data
    /\ UNCHANGED twin

StepMutate == StepMutateWithin(MaxSteiner)

\* the elimination loop left after its first removal
StepEliminateOnce ==
    /\ pc = "step_eliminate"
    /\ \E index \in tournament_select(TOURNAMENT_SIZE, TRUE) :
          population' = Removed(population, index)
    /\ pc' = "step_merge"
    /\ frame' = NoFrame
    /\ op' = [name |-> "remove"]
    /\ UNCHANGED <<problem, child_buffer, current_generation,
                   function_evaluations, edge_db, loop_data, twin>>

\* the elimination loop with the tournament of the parents: the lightest of
\* the sample is removed
StepEliminateLightest ==
    /\ pc = "step_eliminate"
    /\ frame.cursor < NUMBER_OFFSPRING
    /\ IF Len(population) < TOURNAMENT_SIZE
       THEN Panic("step: tournament_select")
       ELSE /\ \E index \in tournament_select(TOURNAMENT_SIZE, FALSE) :
                  population' = Removed(population, index)
            /\ IF frame.cursor + 1 < NUMBER_OFFSPRING
               THEN pc' = "step_eliminate" /\ frame' = [frame EXCEPT !.cursor = @ + 1]
               ELSE pc' = "step_merge" /\ frame' = NoFrame
            /\ op' = [name |-> "remove"]
            /\ UNCHANGED <<problem, child_buffer, current_generation,
                           function_evaluations, edge_db>>
    /\ UNCHANGED loop_data
    /\ UNCHANGED twin

\* the elimination loop, one removal at a time
StepEliminate ==
    /\ pc = "step_eliminate"
    /\ frame.cursor < NUMBER_OFFSPRING
    /\ IF Len(population) < TOURNAMENT_SIZE
       THEN Panic("step: tournament_select")
       ELSE /\ \E index \in tournament_select(TOURNAMENT_SIZE, TRUE) :
                  population' = Removed(population, index)
            /\ IF frame.cursor + 1 < NUMBER_OFFSPRING
               THEN pc' = "step_eliminate" /\ frame' = [frame EXCEPT !.cursor = @ + 1]
               ELSE pc' = "step_merge" /\ frame' = NoFrame
            /\ op' = [name |-> "remove"]
            /\ UNCHANGED <<problem, child_buffer, current_generation,
                           function_evaluations, edge_db>>
    /\ UNCHANGED loop_data
    /\ UNCHANGED twin

\* the rest of step: the assertion on the number of children, append,
\* build_msts, the sort, the generation counter and the two assertions
StepMerge ==
    /\ pc = "step_merge"
    /\ IF Len(child_buffer) # NUMBER_OFFSPRING
       THEN Panic("step: assert_eq!(child_buffer.len(), NUMBER_OFFSPRING)")
       ELSE /\ \E built \in BuildMsts(problem, edge_db,
                                      population \o child_buffer, 1, 0) :
                  /\ population' \in sort_unstable_by(built.population)
                  /\ edge_db' = built.edge_db
                  /\ function_evaluations' =
                         Evaluated(function_evaluations, built.builds)
            /\ child_buffer' = <<>>
            /\ current_generation' = current_generation + 1
            /\ IF Len(population') # POPULATION_SIZE
               THEN pc' = "panicked"
                    /\ op' = [name |-> "panic",
                              at |-> "step: assert_eq!(population.len(), POPULATION_SIZE)"]
               ELSE IF Len(child_buffer') # 0
               THEN pc' = "panicked"
                    /\ op' = [name |-> "panic",
                              at |-> "step: assert_eq!(child_buffer.len(), 0)"]
               ELSE pc' = "running" /\ op' = [name |-> "step"]
            /\ UNCHANGED <<problem, frame>>
    /\ UNCHANGED loop_data
    /\ UNCHANGED twin

\* the nodes of the copy: every node with exactly three edges is set to the
\* Fermat point of its three neighbours
RefinedNodes(graph) ==
    [node \in 1..Len(graph.nodes) |->
        IF Degree(graph, node) = 3
        THEN CHOOSE point \in
                 {fermat_point(graph.nodes[all[1]], graph.nodes[all[2]],
                               graph.nodes[all[3]]) :
                     all \in {SetToSeq(Neighbours(graph, node))}} : TRUE
        ELSE graph.nodes[node]]

\* best_copy: the clone of the best individual with the nodes moved; nothing
\* else of the clone is assigned
BestCopy(best) ==
    [best EXCEPT !.minimum_spanning_tree.graph.nodes =
                     RefinedNodes(best.minimum_spanning_tree.graph)]

\* finalize after its build_msts: the population it leaves
finalize(individuals) ==
    LET best == individuals[1]
        best_copy == BestCopy(best)
    IN IF best_copy.minimum_spanning_tree.total_weight
             < best.minimum_spanning_tree.total_weight
       THEN [individuals EXCEPT ![1] = best_copy]
       ELSE individuals

\* StOBGA::finalize called on the engine once step has returned: its
\* build_msts, then the refinement of the best individual
FinalizeCall ==
    /\ pc = "running"
    /\ op.name = "step"
    /\ current_generation = MaxGeneration
    /\ \E built \in BuildMsts(problem, edge_db, population, 1, 0) :
          /\ population' = finalize(built.population)
          /\ edge_db' = built.edge_db
          /\ function_evaluations' = Evaluated(function_evaluations, built.builds)
    /\ pc' = "finalized"
    /\ op' = [name |-> "finalize", before |-> population]
    /\ UNCHANGED <<problem, child_buffer, current_generation, frame, loop_data>>
    /\ UNCHANGED twin

Next ==
    \/ NewSeed
    \/ NewBuildMsts
    \/ NewSelect
    \/ NewCrossover
    \/ NewMutateLast
    \/ NewMutateSecond
    \/ NewCheck
    \/ NewFinish
    \/ StepSelect
    \/ StepCrossover
    \/ StepMutate
    \/ StepEliminate
    \/ StepMerge
    \/ FinalizeCall

Spec == Init /\ [][Next]_vars

(***************************************************************************)
(* The engine: construction and generations                                *)
(***************************************************************************)
\* an individual that flip-move took out of the box the seeds are drawn in
MovedOut(individual) ==
    individual.chromosome.steiner_points \ InBounds(problem) # {}

\* C1: after every return of step the population holds exactly
\* POPULATION_SIZE individuals and the child buffer is empty, and neither of
\* the two assertions at the end of step fails
C1_StepKeepsPopulationSize ==
    /\ op.name = "step" =>
          Len(population) = POPULATION_SIZE /\ child_buffer = <<>>
    /\ op.name = "panic" =>
          op.at \notin {"step: assert_eq!(population.len(), POPULATION_SIZE)",
                        "step: assert_eq!(child_buffer.len(), 0)"}

\* a generation has completed and a mutated child is in the population
C1_Witness ==
    /\ op.name = "step"
    /\ current_generation = 1
    /\ Len(population) = POPULATION_SIZE
    /\ child_buffer = <<>>
    /\ \E i \in DOMAIN population : MovedOut(population[i])

\* C2: for any seed counts t1, t2, t3 summing to at most the population
\* size, new returns, with a population of exactly POPULATION_SIZE
\* individuals that all have a tree
C2_NewReturnsFullPopulation ==
    /\ op.name = "panic" =>
          op.at \notin {"new: tournament_select",
                        "new: assert_eq!(population.len(), POPULATION_SIZE)"}
    /\ op.name = "new" =>
          /\ Len(population) = POPULATION_SIZE
          /\ \A i \in DOMAIN population :
                population[i].minimum_spanning_tree # NoTree

\* does the individual hold no tree, or one build_mst gives for the
\* chromosome it has now
HoldsCurrentTree(individual) ==
    \/ individual.minimum_spanning_tree = NoTree
    \/ \E built \in Built(problem, edge_db,
                          [individual EXCEPT !.minimum_spanning_tree = NoTree]) :
          built.individual = individual

\* do the three mutation operators leave the individual without a tree,
\* whatever they draw
MutationsClearTree(individual) ==
    /\ \A draw \in FlipMoveDraws(problem, individual, current_generation) :
          mutation_flip_move(problem, individual, current_generation,
                             draw).minimum_spanning_tree = NoTree
    /\ \A draw \in AddDraws(problem, individual) :
          mutation_add_steiner(problem, individual,
                               draw).minimum_spanning_tree = NoTree
    /\ \A draw \in RemoveDraws(problem, individual) :
          mutation_remove_steiner(problem, individual,
                                  draw).minimum_spanning_tree = NoTree

\* C12: every mutation clears the tree of the individual, also when it
\* changes no gene, and every individual that holds a tree holds one built
\* from the chromosome it has now
C12_CachedTreeIsCurrent ==
    /\ \A i \in DOMAIN population : HoldsCurrentTree(population[i])
    /\ \A i \in DOMAIN child_buffer :
          /\ HoldsCurrentTree(child_buffer[i])
          /\ child_buffer[i].minimum_spanning_tree # NoTree
                => MutationsClearTree(child_buffer[i])

\* add-steiner changed the chromosome of a child that had a tree, and the
\* child holds another tree now
C12_Witness ==
    /\ op.name = "mutation_add_steiner"
    /\ op.before.minimum_spanning_tree # NoTree
    /\ After.chromosome # op.before.chromosome
    /\ After.minimum_spanning_tree # NoTree
    /\ After.minimum_spanning_tree # op.before.minimum_spanning_tree
    /\ HoldsCurrentTree(After)

\* C13: the edge cache is append-only: over every step of the constructor,
\* of a generation and of finalize, every key of the cache stays a key and
\* keeps the value stored for it
C13_EdgeCacheAppendOnly ==
    [][\A key \in DOMAIN edge_db :
          key \in DOMAIN edge_db' /\ edge_db'[key] = edge_db[key]]_vars

\* the cache after the constructor, a generation and finalize: it holds
\* lengths for several pairs
C13_Witness ==
    /\ pc = "finalized"
    /\ Cardinality(DOMAIN edge_db) >= 3


\* the edges of the trees the individuals hold, each with the two points it
\* joins
TreeEdges ==
    UNION {{[from |-> individual.minimum_spanning_tree.graph.nodes[edge.a],
             to |-> individual.minimum_spanning_tree.graph.nodes[edge.b],
             w |-> edge.w] :
               edge \in SeqRange(individual.minimum_spanning_tree.graph.edges)} :
           individual \in {i \in Individuals : i.minimum_spanning_tree # NoTree}}

\* C14: the edge cache is never stale: every length it holds is the length
\* compute_distance gives for the two points of its key, and every edge of a
\* tree built through the cache weighs what compute_distance gives for its
\* two end points
C14_EdgeCacheNeverStale ==
    /\ \A key \in DOMAIN edge_db :
          edge_db[key] = compute_distance(problem, key[1], key[2])
    /\ \A edge \in TreeEdges :
          edge.w = compute_distance(problem, edge.from, edge.to)

\* a tree built after a mutation, its lengths read from the cache the build
\* before the mutation filled: one of them is a length through the obstacle,
\* another is not
C14_Witness ==
    /\ pc = "done"
    /\ op.name \in {"mutation_add_steiner", "mutation_remove_steiner"}
    /\ \E key \in DOMAIN edge_db : edge_db[key] >= INF
    /\ \E edge \in TreeEdges :
          /\ Cached(edge_db, edge.from, edge.to)
          /\ edge.w # 0
          /\ edge.w < INF

\* C18: on terminals (0,0) and (1,1) without obstacles, the engine seeded
\* with t1 = 1, t2 = 0, t3 = 0 is constructed: the tree of its seed is the
\* one edge between the terminals, of length 14 tenths, and new does not
\* panic
C18_StrategyAOnlyCompletes ==
    (/\ problem.terminals = <<<<0, 0>>, <<1, 1>>>>
     /\ problem.obstacles = <<>>
     /\ frame.seeds = <<1, 0, 0>>)
        => /\ pc = "new_fill" =>
                 /\ Len(population[1].minimum_spanning_tree.graph.edges) = 1
                 /\ population[1].minimum_spanning_tree.total_weight = 14
           /\ pc # "panicked"

(***************************************************************************)
(* StOBGA::finalize and the loop of main                                   *)
(***************************************************************************)
\* util::is_improvement_by_factor(previous, new, factor): new is below
\* previous by more than factor times previous
is_improvement_by_factor(previous, new) ==
    new < previous - previous \div IMPROVEMENT_FACTOR_INVERSE

\* LoopStateAfter entering LastGeneration one generation early
LoopStateAfterEarly(state, streak_length) ==
    IF streak_length + 1 >= RECESSION_DURATION THEN "LastGeneration" ELSE state

\* the end of the loop body, past the break: the state the loop goes on in
LoopStateAfter(state, streak_length) ==
    IF streak_length = RECESSION_DURATION THEN "LastGeneration" ELSE state

\* StreakAfter without the reset
StreakAfterKept(milestone, streak_length) ==
    IF milestone THEN streak_length ELSE streak_length + 1

\* StreakAfter without the increment
StreakAfterStuck(milestone, streak_length) ==
    IF milestone THEN 0 ELSE streak_length

\* the two arms of the if on the improvement: the streak afterwards
StreakAfter(milestone, streak_length) ==
    IF milestone THEN 0 ELSE streak_length + 1

\* has step just returned to the loop
StepReturned == pc = "running" /\ op.name = "step"

\* the engines main goes into its loop with: a population new returned from
\* one Strategy A seed, one Strategy B seed and Strategy C seeds
MainEngines ==
    UNION {BuildMsts(EngineProblem, <<>>, seeds, 1, 0) :
              seeds \in SeedPopulations(EngineProblem, 1, 1, POPULATION_SIZE - 2)}

InitMain ==
    /\ problem = EngineProblem
    /\ \E engine \in MainEngines :
          /\ population = engine.population
          /\ edge_db = engine.edge_db
          /\ function_evaluations = Evaluated(0, engine.builds)
    /\ child_buffer = <<>>
    /\ current_generation = 0
    /\ pc = "main"
    /\ frame = NoFrame
    /\ loop_data = LoopDataNew
    /\ op = NoOp
    /\ twin = NoTwin

\* stobga.build_msts() and the set-up of loop_data, before the loop
MainBuildMsts ==
    /\ pc = "main"
    /\ \E built \in BuildMsts(problem, edge_db, population, 1, 0) :
          /\ population' = built.population
          /\ edge_db' = built.edge_db
          /\ function_evaluations' = Evaluated(function_evaluations, built.builds)
    /\ loop_data' = LoopDataNew
    /\ pc' = "running"
    /\ op' = [name |-> "build_msts"]
    /\ UNCHANGED <<problem, child_buffer, current_generation, frame>>
    /\ UNCHANGED twin

\* stobga.step() at the top of the loop
LoopStep ==
    StepBegin(~StepReturned /\ current_generation < MaxLoopGeneration)

\* the mutation loop of a step of the loop of main
LoopMutate == StepMutateWithin(MaxLoopSteiner)

\* the rest of the loop body after step returned: finalize in
\* LastGeneration, the comparison with the recorded best, the streak, the
\* break and the change of state
LoopAfterStep ==
    /\ StepReturned
    /\ \E last \in {loop_data.state = "LastGeneration"} :
       \E built \in IF last THEN BuildMsts(problem, edge_db, population, 1, 0)
                    ELSE {[population |-> population, edge_db |-> edge_db,
                           builds |-> 0]} :
       \E finalized \in {IF last THEN finalize(built.population)
                         ELSE built.population} :
       \E best_weight \in {finalized[1].minimum_spanning_tree.total_weight} :
       \E milestone \in {is_improvement_by_factor(loop_data.previous_best_weight,
                                                  best_weight) \/ last} :
       \E streak_length \in {StreakAfter(milestone, loop_data.streak_length)} :
          /\ population' = finalized
          /\ edge_db' = built.edge_db
          /\ function_evaluations' = Evaluated(function_evaluations, built.builds)
          /\ loop_data' =
                [state |-> IF last THEN loop_data.state
                           ELSE LoopStateAfter(loop_data.state, streak_length),
                 streak_length |-> streak_length,
                 previous_best_weight |-> IF milestone THEN best_weight
                                          ELSE loop_data.previous_best_weight]
          /\ pc' = IF last THEN "stopped" ELSE "running"
          /\ op' = [name |-> "loop", before |-> loop_data, finalized |-> last,
                    best_weight |-> best_weight]
    /\ UNCHANGED <<problem, child_buffer, current_generation, frame>>
    /\ UNCHANGED twin

NextMain ==
    \/ MainBuildMsts
    \/ LoopStep
    \/ StepCrossover
    \/ LoopMutate
    \/ StepEliminate
    \/ StepMerge
    \/ LoopAfterStep

SpecMain == InitMain /\ [][NextMain]_vars

\* a step of the loop body after stobga.step(), and one that ran finalize
LoopBodyStep == op'.name = "loop" /\ op' # op

FinalizeStep == LoopBodyStep /\ op'.finalized

\* C15: the loop goes from Running to LastGeneration exactly when the streak
\* reaches RECESSION_DURATION; entering LastGeneration neither finalizes nor
\* stops; a generation that returns in LastGeneration is followed by
\* finalize and the stop and by nothing else, so one generation is run there;
\* finalize is run only in LastGeneration and only by the step that stops;
\* the loop stops only from LastGeneration; nothing follows the stop; and
\* LastGeneration is never left
C15_ConvergenceProtocol ==
    [][/\ (loop_data.state = "Running" /\ LoopBodyStep)
             => (loop_data'.state = "LastGeneration"
                    <=> loop_data'.streak_length = RECESSION_DURATION)
       /\ (loop_data.state = "Running" /\ ~LoopBodyStep)
             => loop_data'.state = "Running"
       /\ loop_data.state = "Running" => (pc' # "stopped" /\ ~FinalizeStep)
       /\ (loop_data.state = "LastGeneration" /\ StepReturned)
             => (FinalizeStep /\ pc' = "stopped")
       /\ (loop_data.state = "LastGeneration" /\ ~StepReturned)
             => (pc' # "stopped" /\ ~LoopBodyStep)
       /\ loop_data.state = "LastGeneration" => loop_data'.state = "LastGeneration"
       /\ pc # "stopped"]_vars

\* the loop has stopped: the step that stopped it ran finalize, in
\* LastGeneration, entered with a streak of RECESSION_DURATION, one
\* generation after the streak got there
C15_Witness ==
    /\ pc = "stopped"
    /\ op.finalized
    /\ op.before.state = "LastGeneration"
    /\ op.before.streak_length = RECESSION_DURATION
    /\ current_generation > RECESSION_DURATION + 1

\* the best weight the loop body reads after step, and finalize, have run
BestWeightAfter == population'[1].minimum_spanning_tree.total_weight

\* the new best is below the recorded best by more than the 0.01 percent
Improved ==
    loop_data.previous_best_weight - BestWeightAfter
        > loop_data.previous_best_weight \div IMPROVEMENT_FACTOR_INVERSE

\* the counter is reset and the reference best replaced
ResetAndRecorded ==
    /\ loop_data'.streak_length = 0
    /\ loop_data'.previous_best_weight = BestWeightAfter

\* the counter is incremented by one and the reference best kept
CountedOn ==
    /\ loop_data'.streak_length = loop_data.streak_length + 1
    /\ loop_data'.previous_best_weight = loop_data.previous_best_weight

\* C16 as stated: after every generation, the last included, the counter is
\* reset and the reference replaced if and only if the new best improves on
\* the recorded best by more than the factor; otherwise the counter goes up
\* by one and the reference is kept
C16_ResetIffImproved ==
    [][LoopBodyStep => IF Improved THEN ResetAndRecorded ELSE CountedOn]_vars

\* C16 amended: that holds after every generation run in Running; after the
\* generation run in LastGeneration the counter is reset and the reference
\* replaced whether the best improved or not
C16_ResetIffImprovedWhileRunning ==
    [][LoopBodyStep =>
          IF Improved \/ loop_data.state = "LastGeneration"
          THEN ResetAndRecorded ELSE CountedOn]_vars

\* the body after the last generation: the best is the recorded best, and
\* the counter, which had counted up to RECESSION_DURATION, is back at 0
C16_Witness ==
    /\ pc = "stopped"
    /\ op.before.state = "LastGeneration"
    /\ op.before.streak_length = RECESSION_DURATION
    /\ op.best_weight = op.before.previous_best_weight
    /\ loop_data.streak_length = 0

(***************************************************************************)
(* finalize on its own: an engine on three terminals after a generation    *)
(***************************************************************************)
\* a population as step leaves it: POPULATION_SIZE built individuals, the
\* lightest first; here one individual followed by copies of another
InitFinalize ==
    /\ problem = TriangleProblem
    /\ \E c1, c2 \in Chromosomes(TriangleProblem) :
          \E first \in Built(TriangleProblem, <<>>,
                             [chromosome |-> c1, minimum_spanning_tree |-> NoTree]) :
             \E second \in Built(TriangleProblem, first.edge_db,
                                 [chromosome |-> c2, minimum_spanning_tree |-> NoTree]) :
                /\ first.individual.minimum_spanning_tree.total_weight
                      <= second.individual.minimum_spanning_tree.total_weight
                /\ population = [i \in 1..POPULATION_SIZE |->
                                    IF i = 1 THEN first.individual
                                    ELSE second.individual]
                /\ edge_db = second.edge_db
    /\ child_buffer = <<>>
    /\ current_generation = MaxGeneration
    /\ function_evaluations = MaxEvaluations
    /\ pc = "running"
    /\ frame = NoFrame
    /\ loop_data = LoopDataNew
    /\ op = [name |-> "step"]
    /\ twin = NoTwin

NextFinalize == FinalizeCall

SpecFinalize == InitFinalize /\ [][NextFinalize]_vars

\* the weight of a tree over the points its nodes now have
RebuiltWeight(graph) ==
    SumSeq([i \in 1..Len(graph.edges) |->
               compute_distance(problem, graph.nodes[graph.edges[i].a],
                                graph.nodes[graph.edges[i].b])])

\* C17: finalize moves the nodes of degree 3 of the best tree to the Fermat
\* points of their neighbours and weighs the tree again; the best individual
\* holds the moved tree, with that weight, exactly when that weight is below
\* the weight before, and is left as it was otherwise
C17_FinalizeKeepsLighterRefinement ==
    op.name = "finalize" =>
        LET best == op.before[1]
            refined == BestCopy(best).minimum_spanning_tree.graph
            rebuilt == RebuiltWeight(refined)
        IN IF rebuilt < best.minimum_spanning_tree.total_weight
           THEN /\ population[1].minimum_spanning_tree.graph.nodes = refined.nodes
                /\ population[1].minimum_spanning_tree.total_weight = rebuilt
           ELSE population[1] = best

(***************************************************************************)
(* Two engines built from the same problem with the same seed, stepped in  *)
(* lockstep: the selection of a generation.  Both draw the same winners    *)
(* and the same shuffle from their random generators; the hash set of      *)
(* each iterates in an order of its own.                                   *)
(***************************************************************************)
\* the orders in which a HashSet of these indices can iterate
IterationOrders(indices) ==
    {order \in [1..Cardinality(indices) -> indices] :
        \A i, j \in DOMAIN order : i # j => order[i] # order[j]}

\* the draws of a shuffle of n elements: the place every element comes from
ShuffleDraws(n) ==
    {draw \in [1..n -> 1..n] : \A i, j \in 1..n : i # j => draw[i] # draw[j]}

\* sorted() left out: the indices in the order of iteration
sorted_as_iterated(iteration) == iteration

\* itertools sorted(): the indices in ascending order
sorted(iteration) == SetToSeq(SeqRange(iteration))

\* shuffle(&mut self.random_generator) under a draw
shuffle(indices, draw) == [i \in 1..Len(indices) |-> indices[draw[i]]]

InitLockstep ==
    /\ problem = EngineProblem
    /\ \E engine \in MainEngines :
          /\ population = engine.population
          /\ edge_db = engine.edge_db
          /\ function_evaluations = Evaluated(0, engine.builds)
    /\ child_buffer = <<>>
    /\ current_generation = 0
    /\ pc = "running"
    /\ frame = NoFrame
    /\ loop_data = LoopDataNew
    /\ twin = NoTwin
    /\ op = [name |-> "new"]

\* the selection loop, sorted() and shuffle of step, in both engines
LockstepSelect ==
    /\ pc = "running"
    /\ current_generation < MaxGeneration
    /\ IF Len(population) < TOURNAMENT_SIZE
       THEN Panic("step: tournament_select") /\ UNCHANGED twin
       ELSE /\ \E chosen \in SUBSET tournament_select(TOURNAMENT_SIZE, FALSE) :
                  /\ Cardinality(chosen) = NUMBER_OFFSPRING
                  /\ \E draw \in ShuffleDraws(NUMBER_OFFSPRING) :
                     \E first, second \in IterationOrders(chosen) :
                        /\ frame' = [NoFrame EXCEPT !.indices_to_recombine =
                                        shuffle(sorted(first), draw)]
                        /\ twin' = [iteration |-> second,
                                    indices_to_recombine |->
                                        shuffle(sorted(second), draw)]
                        /\ op' = [name |-> "tournament_select",
                                  iteration |-> first, draw |-> draw]
            /\ pc' = "step_crossover"
            /\ UNCHANGED <<problem, population, child_buffer, current_generation,
                           function_evaluations, edge_db>>
    /\ UNCHANGED loop_data

NextLockstep ==
    \/ LockstepSelect
    \/ StepCrossover
    \/ LoopMutate
    \/ StepEliminate
    \/ StepMerge

SpecLockstep == InitLockstep /\ [][NextLockstep]_vars

InitMerge ==
    /\ problem = TriangleProblem
    /\ \E c1, c2, c3 \in Chromosomes(TriangleProblem) :
          \E survivor \in Built(TriangleProblem, <<>>,
                                [chromosome |-> c1, minimum_spanning_tree |-> NoTree]) :
          \E first \in Built(TriangleProblem, survivor.edge_db,
                             [chromosome |-> c2, minimum_spanning_tree |-> NoTree]) :
          \E second \in Built(TriangleProblem, first.edge_db,
                              [chromosome |-> c3, minimum_spanning_tree |-> NoTree]) :
             /\ population = [i \in 1..(POPULATION_SIZE - NUMBER_OFFSPRING) |->
                                 survivor.individual]
             /\ child_buffer = <<first.individual, second.individual>>
             /\ edge_db = second.edge_db
    /\ current_generation = 0
    /\ function_evaluations = MaxEvaluations
    /\ pc = "step_merge"
    /\ frame = NoFrame
    /\ loop_data = LoopDataNew
    /\ twin = NoTwin
    /\ op = [name |-> "remove"]

NextMerge == StepMerge

SpecMerge == InitMerge /\ [][NextMerge]_vars

\* total_weight of the individual at a position of the population, from 1
Fitness(i) == population[i].minimum_spanning_tree.total_weight

\* C21: after every completed generation the population is in ascending
\* order of total_weight, so its first individual is one of least
\* total_weight
C21_PopulationSortedAfterStep ==
    op.name = "step" =>
        /\ \A i, j \in DOMAIN population : i < j => Fitness(i) <= Fitness(j)
        /\ \A j \in DOMAIN population : Fitness(1) <= Fitness(j)

\* a generation has ended whose lightest individual is a child of it: it is
\* lighter than the individual behind it
C21_Witness ==
    /\ pc = "running"
    /\ op.name = "step"
    /\ Len(population) = POPULATION_SIZE
    /\ Fitness(1) < Fitness(2)
    /\ Fitness(POPULATION_SIZE - 1) < Fitness(POPULATION_SIZE)

C23_OffspringQuota ==
    /\ pc = "running" => child_buffer = <<>>
    /\ pc = "step_crossover" => Len(child_buffer) = frame.cursor
    /\ pc \in {"step_mutate", "step_eliminate", "step_merge"} =>
          Len(child_buffer) = NUMBER_OFFSPRING
    /\ ~(/\ pc = "panicked"
         /\ op.at = "step: assert_eq!(child_buffer.len(), NUMBER_OFFSPRING)")

\* a generation stands at its assertion with its children, the eliminations
\* done, in a population that holds an individual with a Steiner point
C23_Witness ==
    /\ pc = "step_merge"
    /\ Len(child_buffer) = NUMBER_OFFSPRING
    /\ Len(population) = POPULATION_SIZE - NUMBER_OFFSPRING
    /\ \E i \in DOMAIN population :
          population[i].chromosome.steiner_points # {}

\* the names of the three mutation operators
MutationNames ==
    {"mutation_flip_move", "mutation_add_steiner", "mutation_remove_steiner"}

\* the chromosome the operator named in op gives for the individual and the
\* draws op recorded
OperatorResult ==
    IF op.name = "mutation_flip_move"
    THEN mutation_flip_move(problem, op.before, current_generation, op.draw).chromosome
    ELSE IF op.name = "mutation_add_steiner"
    THEN mutation_add_steiner(problem, op.before, op.draw).chromosome
    ELSE mutation_remove_steiner(problem, op.before, op.draw).chromosome

\* a child the mutation loop has been over: it holds a tree, and the tree is
\* one build_mst gives for its chromosome
MutatedAndBuilt(child) ==
    /\ child.minimum_spanning_tree # NoTree
    /\ HoldsCurrentTree(child)

\* one call of mutate, as a step: it acts on a child without a tree and
\* leaves it with the chromosome the operator gives and with a tree
MutatesOneFreshChild ==
    /\ op'.name \in MutationNames
    /\ op'.index \in DOMAIN child_buffer
    /\ child_buffer[op'.index].minimum_spanning_tree = NoTree
    /\ op'.before.chromosome = child_buffer[op'.index].chromosome
    /\ (child_buffer[op.index].chromosome = OperatorResult)'
    /\ child_buffer'[op'.index].minimum_spanning_tree # NoTree
    /\ DOMAIN child_buffer' = DOMAIN child_buffer
    /\ \A i \in DOMAIN child_buffer :
          i # op'.index => child_buffer'[i] = child_buffer[i]
    /\ population' = population

\* C24: every child, of a generation or of the fill loop of new, is mutated
\* once, by one of the three operators: a mutation acts on a child that has
\* no tree yet, as crossover pushed it, and leaves it with the chromosome
\* that operator gives and a tree built from that chromosome; the other
\* children and the population are left alone, and when the children are
\* appended to the population each of them has been mutated and built
C24_EveryChildMutatedOnce ==
    /\ [](/\ pc = "step_mutate" =>
               \A i \in DOMAIN child_buffer :
                  IF i <= frame.cursor THEN MutatedAndBuilt(child_buffer[i])
                  ELSE child_buffer[i].minimum_spanning_tree = NoTree
          /\ pc = "new_mutate_last" =>
               \A i \in DOMAIN child_buffer :
                  IF i < Len(child_buffer) - 1 THEN MutatedAndBuilt(child_buffer[i])
                  ELSE child_buffer[i].minimum_spanning_tree = NoTree
          /\ pc = "new_mutate_second" =>
               \A i \in DOMAIN child_buffer :
                  IF i # Len(child_buffer) - 1 THEN MutatedAndBuilt(child_buffer[i])
                  ELSE child_buffer[i].minimum_spanning_tree = NoTree
          /\ pc \in {"new_check", "new_fill", "new_finish",
                     "step_eliminate", "step_merge"} =>
               \A i \in DOMAIN child_buffer : MutatedAndBuilt(child_buffer[i]))
    /\ [][(pc \in {"step_mutate", "new_mutate_last", "new_mutate_second"})
              => MutatesOneFreshChild]_vars

\* the last child of a generation has just been mutated, by an operator
\* that changed its chromosome, and holds its tree; the first child was
\* mutated before it
C24_Witness ==
    /\ pc = "step_eliminate"
    /\ op.name \in MutationNames
    /\ op.index = Len(child_buffer)
    /\ op.index > 1
    /\ After.chromosome # op.before.chromosome
    /\ MutatedAndBuilt(After)

\* C25: the individual add-steiner or remove-steiner is run on holds a tree,
\* one build_mst gives for the chromosome it has at that moment, so every
\* Steiner point and every included corner of the chromosome is the
\* coordinates of a node of the tree and the lookup by coordinates finds one
C25_OperatorsRunOnBuiltTree ==
    (op.name \in {"mutation_add_steiner", "mutation_remove_steiner"}) =>
        LET graph == op.before.minimum_spanning_tree.graph
            found(point) == \E id \in 1..Len(graph.nodes) : graph.nodes[id] = point
        IN /\ op.before.minimum_spanning_tree # NoTree
           /\ HoldsCurrentTree(op.before)
           /\ \A steiner_point \in op.before.chromosome.steiner_points :
                 /\ found(steiner_point)
                 /\ graph.nodes[FindNode(graph, steiner_point)] = steiner_point
           /\ \A index_corner \in op.before.chromosome.included_corners :
                 /\ found(Corner(problem, index_corner))
                 /\ graph.nodes[FindNode(graph, Corner(problem, index_corner))]
                       = Corner(problem, index_corner)

\* remove-steiner has run on a child that crossover left without a tree,
\* with a Steiner point and an included corner, and has removed a gene
C25_Witness ==
    /\ op.name = "mutation_remove_steiner"
    /\ op.before.chromosome.steiner_points # {}
    /\ op.before.chromosome.included_corners # {}
    /\ op.before.minimum_spanning_tree # NoTree
    /\ After.chromosome # op.before.chromosome

\* one pass of the elimination loop, as a step: one individual leaves the
\* population, the children are not touched
RemovesOneSurvivor ==
    /\ pc' # "panicked"
    /\ \E index \in DOMAIN population : population' = Removed(population, index)
    /\ child_buffer' = child_buffer

\* the end of step, as a step: the population it leaves is the survivors and
\* the children, each as often as it was there, in some order
MergesEveryChild ==
    /\ pc' = "running"
    /\ Len(population') = Len(population) + Len(child_buffer)
    /\ \A j \in DOMAIN population' :
          Count(population', population'[j])
             = Count(population \o child_buffer, population'[j])

\* C26: the elimination loop of a generation removes NUMBER_OFFSPRING
\* individuals, one a pass, from the population as the pass before left it;
\* the children are in the child buffer until the loop is over, so none of
\* them is removed and all of them are in the population when step returns
C26_EliminationSparesChildren ==
    /\ [](/\ pc = "step_eliminate" =>
               /\ frame.cursor < NUMBER_OFFSPRING
               /\ Len(population) = POPULATION_SIZE - frame.cursor
               /\ Len(population) >= TOURNAMENT_SIZE
          /\ pc = "step_merge" =>
               Len(population) = POPULATION_SIZE - NUMBER_OFFSPRING)
    /\ [][(pc = "step_eliminate") => RemovesOneSurvivor]_vars
    /\ [][(pc = "step_merge") => MergesEveryChild]_vars

\* a generation has ended after its eliminations and its merge, and the
\* population it leaves holds an individual with a Steiner point
C26_Witness ==
    /\ pc = "running"
    /\ op.name = "step"
    /\ current_generation = 1
    /\ Len(population) = POPULATION_SIZE
    /\ \E j \in DOMAIN population :
          Cardinality(population[j].chromosome.steiner_points) = MaxSteiner

(***************************************************************************)
(* tournament_select on its own: a sorted population of three weights, one *)
(* call                                                                    *)
(***************************************************************************)
\* rand::seq::index::sample(rng, length, amount) as the iterator gives it:
\* amount different indices out of 1..length, in the order drawn
SampleOrders(length, amount) ==
    {order \in [1..amount -> 1..length] :
        \A i, j \in 1..amount : i < j => order[i] # order[j]}

\* total_weight of the individual at an index
WeightAt(individuals, index) ==
    individuals[index].minimum_spanning_tree.total_weight

\* max_by keeping the element it holds when the next one compares Equal
max_by_keeping_first(individuals, sample, position, held) ==
    LET first_heaviest ==
            CHOOSE k \in DOMAIN sample :
                /\ \A j \in DOMAIN sample :
                      WeightAt(individuals, sample[j]) <= WeightAt(individuals, sample[k])
                /\ \A j \in 1..(k - 1) :
                      WeightAt(individuals, sample[j]) < WeightAt(individuals, sample[k])
    IN sample[first_heaviest]

\* max_by answering with the lightest
max_by_lightest(individuals, sample, position, held) ==
    LET lightest ==
            CHOOSE k \in DOMAIN sample :
                \A j \in DOMAIN sample :
                    WeightAt(individuals, sample[k]) <= WeightAt(individuals, sample[j])
    IN sample[lightest]

RECURSIVE min_by(_, _, _, _)
\* Iterator::min_by over the sample from a position on, held being the
\* element kept so far: the next element replaces it only when held compares
\* Greater, so of equal elements the first is returned
min_by(individuals, sample, position, held) ==
    IF position > Len(sample) THEN held
    ELSE min_by(individuals, sample, position + 1,
                IF WeightAt(individuals, held) > WeightAt(individuals, sample[position])
                THEN sample[position]
                ELSE held)

RECURSIVE max_by(_, _, _, _)
\* Iterator::max_by likewise: held is kept only when it compares Greater, so
\* of equal elements the last is returned
max_by(individuals, sample, position, held) ==
    IF position > Len(sample) THEN held
    ELSE max_by(individuals, sample, position + 1,
                IF WeightAt(individuals, held) > WeightAt(individuals, sample[position])
                THEN held
                ELSE sample[position])

\* the return of tournament_select for a sample in the order drawn
TournamentWinner(individuals, sample, to_die) ==
    IF to_die
    THEN max_by(individuals, sample, 2, sample[1])
    ELSE min_by(individuals, sample, 2, sample[1])

\* an engine between two generations: built individuals of three chromosomes
\* on three terminals, in ascending order of total_weight
InitTournament ==
    /\ problem = TriangleProblem
    /\ \E first \in Built(TriangleProblem, <<>>, NewIndividual({<<1, 1>>}, {})) :
       \E second \in Built(TriangleProblem, first.edge_db,
                           NewIndividual({<<1, 0>>}, {})) :
       \E third \in Built(TriangleProblem, second.edge_db, NewIndividual({}, {})) :
       \E ranks \in [1..POPULATION_SIZE -> 1..3] :
          /\ \A i, j \in 1..POPULATION_SIZE : i < j => ranks[i] <= ranks[j]
          /\ population \in sort_unstable_by(
                [i \in 1..POPULATION_SIZE |->
                    IF ranks[i] = 1 THEN first.individual
                    ELSE IF ranks[i] = 2 THEN second.individual
                    ELSE third.individual])
          /\ edge_db = third.edge_db
    /\ child_buffer = <<>>
    /\ current_generation = 1
    /\ function_evaluations = MaxEvaluations
    /\ pc = "running"
    /\ frame = NoFrame
    /\ loop_data = LoopDataNew
    /\ twin = NoTwin
    /\ op = [name |-> "step"]

\* self.tournament_select(size, to_die), the sample in the order drawn
TournamentSelectCall ==
    /\ pc = "running"
    /\ \E to_die \in BOOLEAN :
       \E sample \in SampleOrders(Len(population), TOURNAMENT_SIZE) :
          op' = [name |-> "tournament_select", to_die |-> to_die,
                 sample |-> sample,
                 index |-> TournamentWinner(population, sample, to_die)]
    /\ pc' = "selected"
    /\ UNCHANGED <<problem, population, child_buffer, current_generation,
                   function_evaluations, edge_db, frame, loop_data, twin>>

NextTournament == TournamentSelectCall

SpecTournament == InitTournament /\ [][NextTournament]_vars

\* C27: tournament_select(size, to_die) returns one of the size different
\* indices of the population it sampled; asked for one to die, no sampled
\* individual is heavier than the one returned, and asked for a parent, none
\* is lighter; the call changes nothing of the engine but the random stream
C27_TournamentReturnsExtreme ==
    /\ [](pc = "selected" =>
            /\ Len(op.sample) = TOURNAMENT_SIZE
            /\ \A i \in DOMAIN op.sample : op.sample[i] \in DOMAIN population
            /\ \A i, j \in DOMAIN op.sample : i # j => op.sample[i] # op.sample[j]
            /\ \E i \in DOMAIN op.sample : op.sample[i] = op.index
            /\ op.to_die =>
                  \A i \in DOMAIN op.sample :
                     Fitness(op.sample[i]) <= Fitness(op.index)
            /\ ~op.to_die =>
                  \A i \in DOMAIN op.sample :
                     Fitness(op.index) <= Fitness(op.sample[i])
            /\ op.index \in tournament_select(TOURNAMENT_SIZE, op.to_die))
    /\ [][(pc = "running") =>
            UNCHANGED <<problem, population, child_buffer, current_generation,
                        function_evaluations, edge_db>>]_vars

\* a tournament for one to die over a sample of lighter and heavier
\* individuals has returned one of the heaviest, which is not the first drawn
C27_Witness ==
    /\ pc = "selected"
    /\ op.to_die
    /\ op.index # op.sample[1]
    /\ \E i \in DOMAIN op.sample : Fitness(op.sample[i]) < Fitness(op.index)
    /\ Fitness(op.sample[1]) < Fitness(op.index)

\* the positions of the sample whose individual is the lightest, or the
\* heaviest, of the sampled
ExtremePositions(to_die) ==
    {k \in DOMAIN op.sample :
        \A j \in DOMAIN op.sample :
            IF to_die
            THEN Fitness(op.sample[j]) <= Fitness(op.sample[k])
            ELSE Fitness(op.sample[k]) <= Fitness(op.sample[j])}

\* C28 as stated: when several sampled individuals have the extreme
\* total_weight, tournament_select returns the one drawn first among them,
\* asked for a parent or for one to die
C28_FirstOfTiesWins ==
    pc = "selected" =>
        \E k \in ExtremePositions(op.to_die) :
            /\ op.index = op.sample[k]
            /\ \A j \in ExtremePositions(op.to_die) : k <= j

\* C28, amended: asked for a parent, tournament_select returns the lightest
\* sampled individual drawn first; asked for one to die, the heaviest
\* sampled individual drawn last
C28_FirstLightestLastHeaviest ==
    pc = "selected" =>
        \E k \in ExtremePositions(op.to_die) :
            /\ op.index = op.sample[k]
            /\ \A j \in ExtremePositions(op.to_die) :
                  IF op.to_die THEN j <= k ELSE k <= j

\* a tournament for one to die whose sample holds several of the heaviest
\* has returned the one drawn last of them
C28_Witness ==
    /\ pc = "selected"
    /\ op.to_die
    /\ Cardinality(ExtremePositions(TRUE)) >= 2
    /\ Cardinality(ExtremePositions(TRUE)) < TOURNAMENT_SIZE
    /\ \A j \in ExtremePositions(TRUE) :
          op.sample[j] # op.index => j < Position(op.sample, op.index)

\* C29 as stated: when remove-steiner finds candidates of both kinds, both
\* outcomes are possible: some draw removes a Steiner point and some draw
\* removes a corner
C29_BothCategoriesPossible ==
    (/\ op.name = "mutation_remove_steiner"
     /\ Len(CandidateSteinerPoints(op.before)) > 0
     /\ Len(CandidateCorners(problem, op.before)) > 0) =>
        /\ \E draw \in RemoveDraws(problem, op.before) :
              mutation_remove_steiner(problem, op.before, draw)
                  .chromosome.steiner_points
                 # op.before.chromosome.steiner_points
        /\ \E draw \in RemoveDraws(problem, op.before) :
              mutation_remove_steiner(problem, op.before, draw)
                  .chromosome.included_corners
                 # op.before.chromosome.included_corners

\* C30: remove-steiner takes exactly one gene out of the chromosome, a
\* candidate Steiner point or a candidate corner index, when there is a
\* candidate, and leaves the chromosome as it is when there is none; it adds
\* no gene, the terminals of the problem are as before, and the individual
\* it leaves has no tree
C30_RemoveTakesOneCandidate ==
    op.name = "mutation_remove_steiner" =>
        LET result == mutation_remove_steiner(problem, op.before, op.draw)
            candidate_steiner_points == SeqRange(CandidateSteinerPoints(op.before))
            candidate_corners == SeqRange(CandidateCorners(problem, op.before))
            steiner_points_gone == op.before.chromosome.steiner_points
                                      \ result.chromosome.steiner_points
            corners_gone == op.before.chromosome.included_corners
                               \ result.chromosome.included_corners
        IN /\ result.minimum_spanning_tree = NoTree
           /\ After.chromosome = result.chromosome
           /\ result.chromosome.steiner_points
                 \subseteq op.before.chromosome.steiner_points
           /\ result.chromosome.included_corners
                 \subseteq op.before.chromosome.included_corners
           /\ steiner_points_gone \subseteq candidate_steiner_points
           /\ corners_gone \subseteq candidate_corners
           /\ Cardinality(steiner_points_gone) + Cardinality(corners_gone)
                 = (IF candidate_steiner_points = {} /\ candidate_corners = {}
                    THEN 0 ELSE 1)
           /\ problem = SquareProblem
           /\ \A i \in DOMAIN problem.terminals :
                 \E id \in DOMAIN After.minimum_spanning_tree.graph.nodes :
                    After.minimum_spanning_tree.graph.nodes[id] = problem.terminals[i]

\* remove-steiner has run on an individual with a candidate Steiner point and
\* two candidate corners and has removed one of the corners
C30_Witness ==
    /\ op.name = "mutation_remove_steiner"
    /\ Len(CandidateSteinerPoints(op.before)) = 1
    /\ Len(CandidateCorners(problem, op.before)) = 2
    /\ After.chromosome.steiner_points = op.before.chromosome.steiner_points
    /\ Cardinality(After.chromosome.included_corners) = 1

\* is the point within 1e-2 of a Steiner point of the individual
NearSteinerPoint(individual, point) ==
    \E q \in individual.chromosome.steiner_points :
        euclidean_distance(q, point) <= NEAR_DUPLICATE

\* C31: add-steiner adds at most one Steiner point, removes none and leaves
\* the included corners as they are; with a candidate triple it adds nothing
\* when the Fermat point is inside an impassable obstacle or within 1e-2 of a
\* Steiner point of the individual, and adds the Fermat point otherwise; the
\* individual it leaves has no tree
C31_AddSteinerFrame ==
    op.name = "mutation_add_steiner" =>
        LET result == mutation_add_steiner(problem, op.before, op.draw)
            before == op.before.chromosome
            p4 == FermatOf(op.before, op.draw)
        IN /\ result.minimum_spanning_tree = NoTree
           /\ After.chromosome = result.chromosome
           /\ before.steiner_points \subseteq result.chromosome.steiner_points
           /\ Cardinality(result.chromosome.steiner_points \ before.steiner_points) <= 1
           /\ result.chromosome.included_corners = before.included_corners
           /\ AddCandidates(op.before.minimum_spanning_tree.graph) # {} =>
                 result.chromosome.steiner_points =
                    IF InsideImpassable(p4) \/ NearSteinerPoint(op.before, p4)
                    THEN before.steiner_points
                    ELSE before.steiner_points \cup {p4}

\* add-steiner has computed a Fermat point one grid unit from the Steiner
\* point of the individual, outside the obstacle, and has added nothing
C31_Witness ==
    /\ op.name = "mutation_add_steiner"
    /\ AddCandidates(op.before.minimum_spanning_tree.graph) # {}
    /\ ~InsideImpassable(FermatOf(op.before, op.draw))
    /\ FermatOf(op.before, op.draw) \notin op.before.chromosome.steiner_points
    /\ NearSteinerPoint(op.before, FermatOf(op.before, op.draw))
    /\ After.chromosome = op.before.chromosome

\* C32: for the split value drawn, child 1 is the genes of parent 1 left of
\* it and the genes of parent 2 right of it, child 2 the genes of parent 1 at
\* or right of it and the genes of parent 2 at or left of it; a corner gene
\* goes by the x coordinate of the corner it is the index of; the children
\* are pushed without a tree, and the population is as before
C32_CrossoverAssignment ==
    /\ [](op.name = "crossover" =>
            LET split == op.random_x_value
                x(point) == 2 * point[1]
                cx(index) == 2 * Corner(problem, index)[1]
            IN /\ Child1.steiner_points =
                     {q \in Parent1.steiner_points : x(q) < split}
                     \cup {q \in Parent2.steiner_points : x(q) > split}
               /\ Child2.steiner_points =
                     {q \in Parent1.steiner_points : x(q) >= split}
                     \cup {q \in Parent2.steiner_points : x(q) <= split}
               /\ Child1.included_corners =
                     {i \in Parent1.included_corners : cx(i) < split}
                     \cup {i \in Parent2.included_corners : cx(i) > split}
               /\ Child2.included_corners =
                     {i \in Parent1.included_corners : cx(i) >= split}
                     \cup {i \in Parent2.included_corners : cx(i) <= split}
               /\ child_buffer[Len(child_buffer) - 1].minimum_spanning_tree = NoTree
               /\ child_buffer[Len(child_buffer)].minimum_spanning_tree = NoTree
               /\ \E i, j \in DOMAIN population :
                     population[i] = op.parent_1 /\ population[j] = op.parent_2)
    /\ [][(pc = "crossover") =>
            /\ population' = population
            /\ Len(child_buffer') \in {Len(child_buffer), Len(child_buffer) + 2}
            /\ SubSeq(child_buffer', 1, Len(child_buffer)) = child_buffer]_vars

\* a crossover has sent a corner gene of parent 1 to child 1 whose corner is
\* left of the split value and whose index is not, and a corner gene of
\* parent 2 alone, also left of it, to child 2
C32_Witness ==
    /\ op.name = "crossover"
    /\ \E i \in Parent1.included_corners :
          /\ 2 * Corner(problem, i)[1] < op.random_x_value
          /\ 2 * i >= op.random_x_value
          /\ i \in Child1.included_corners
    /\ \E i \in Parent2.included_corners \ Parent1.included_corners :
          /\ 2 * Corner(problem, i)[1] < op.random_x_value
          /\ i \in Child2.included_corners
          /\ i \notin Child1.included_corners

(***************************************************************************)
(* Seeds, one crossover and one mutation on a problem with an obstacle     *)
(***************************************************************************)
\* the most Strategy C seeds among the two
MaxStrategyC == 1

\* the seed counts of two seeds
TwoSeedCounts ==
    {t \in (0..2) \X (0..MaxStrategyB) \X (0..MaxStrategyC) :
        t[1] + t[2] + t[3] = 2}

\* the engine after the seeding loops and build_msts of new, with two
\* seeds, each with one of its trees
InitSeeded ==
    /\ problem = WedgeProblem
    /\ \E t \in TwoSeedCounts :
       \E seeds \in SeedPopulations(WedgeProblem, t[1], t[2], t[3]) :
          LET b1 == SomeBuilt(WedgeProblem, seeds[1].chromosome)
              b2 == SomeBuilt(WedgeProblem, seeds[2].chromosome)
          IN /\ population = <<b1.individual, b2.individual>>
             /\ edge_db = CacheAfter(WedgeProblem, b1.edge_db, b2.individual)
    /\ function_evaluations = 2
    /\ child_buffer = <<>>
    /\ current_generation = 0
    /\ pc = "crossover"
    /\ frame = NoFrame
    /\ loop_data = LoopDataNew
    /\ twin = NoTwin
    /\ op = [name |-> "build_msts"]

\* stobga.crossover(p1, p2) of the fill loop, the first seed with the second
SeededCrossover ==
    /\ pc = "crossover"
    /\ Crossover(1, 2)
    /\ pc' = "done"
    /\ UNCHANGED <<frame, loop_data, twin>>

\* stobga.mutate(stobga.child_buffer.len() - 1) after the crossover
SeededMutate ==
    /\ pc = "done"
    /\ Mutate(Len(child_buffer))
    /\ Followed(child_buffer'[Len(child_buffer)])
    /\ pc' = "mutated"
    /\ UNCHANGED <<frame, loop_data, twin>>

NextSeeded == SeededCrossover \/ SeededMutate

SpecSeeded == InitSeeded /\ [][NextSeeded]_vars

\* C33: the included corners of every individual of the population and of
\* the child buffer are indices below the number of obstacle corners of the
\* problem, after seeding, crossover and each of the mutations
C33_CornerIndicesInRange ==
    LET k == Len(problem.obstacle_corners)
    IN /\ \A i \in DOMAIN population :
             population[i].chromosome.included_corners \subseteq 0..(k - 1)
       /\ \A i \in DOMAIN child_buffer :
             child_buffer[i].chromosome.included_corners \subseteq 0..(k - 1)

\* flip-move has switched on the last corner of the problem in a child that
\* did not have it
C33_Witness ==
    /\ pc = "mutated"
    /\ op.name = "mutation_flip_move"
    /\ Len(problem.obstacle_corners) - 1
          \in After.chromosome.included_corners
                 \ op.before.chromosome.included_corners

(***************************************************************************)
(* The centroids of the problem and the Strategy A seed                    *)
(***************************************************************************)
\* the coordinates the vertices are drawn from: multiples of three, so that
\* the mean of three of them is on the grid
MaxColumn == 2
MaxRow == 2
VertexGrid == {<<3 * x, 3 * y>> : x \in 0..MaxColumn, y \in 0..MaxRow}

\* twice the signed area of a, b, c: positive when they turn counter-clockwise
Orient(a, b, c) ==
    (b[1] - a[1]) * (c[2] - a[2]) - (b[2] - a[2]) * (c[1] - a[1])

\* positive when d is inside the circle through the counter-clockwise a, b, c,
\* zero when it is on it
InCircle(a, b, c, d) ==
    LET ax == a[1] - d[1]
        ay == a[2] - d[2]
        bx == b[1] - d[1]
        by == b[2] - d[2]
        cx == c[1] - d[1]
        cy == c[2] - d[2]
    IN   (ax * ax + ay * ay) * (bx * cy - cx * by)
       - (bx * bx + by * by) * (ax * cy - cx * ay)
       + (cx * cx + cy * cy) * (ax * by - bx * ay)

\* the triangles of the Delaunay triangulation of vertices, as index triples
\* (from 1) directed counter-clockwise, every rotation of each: no other
\* vertex is inside or on the circle through the three
DelaunayTriangles(vertices) ==
    LET I == DOMAIN vertices
    IN {t \in I \X I \X I :
           /\ Orient(vertices[t[1]], vertices[t[2]], vertices[t[3]]) > 0
           /\ \A l \in I \ {t[1], t[2], t[3]} :
                 InCircle(vertices[t[1]], vertices[t[2]], vertices[t[3]],
                          vertices[l]) < 0}

\* vertex lists with one triangulation: no three on a line, no four on a circle
GeneralPosition(vertices) ==
    LET I == DOMAIN vertices
    IN /\ \A i, j, l \in I :
             Cardinality({i, j, l}) = 3 =>
                Orient(vertices[i], vertices[j], vertices[l]) # 0
       /\ \A i, j, l, m \in I :
             Cardinality({i, j, l, m}) = 4 =>
                InCircle(vertices[i], vertices[j], vertices[l], vertices[m]) # 0

\* delaunator::triangulate(&vertices).triangles: the index lists it can
\* return, three indices a triangle, the triangles in any order and each
\* from any of its vertices on
triangulate(vertices) ==
    LET triangles == DelaunayTriangles(vertices)
        amount == Cardinality({{t[1], t[2], t[3]} : t \in triangles})
    IN {[i \in 1..(3 * amount) |-> order[((i - 1) \div 3) + 1][((i - 1) % 3) + 1]] :
           order \in {o \in [1..amount -> triangles] :
                         \A i, j \in 1..amount :
                            i # j => {o[i][1], o[i][2], o[i][3]}
                                       # {o[j][1], o[j][2], o[j][3]}}}

\* three or four terminals of the grid in general position, in one order
VertexLists ==
    {v \in UNION {[1..n -> VertexGrid] : n \in 3..4} :
        /\ \A i \in 1..(Len(v) - 1) :
              \/ v[i][1] < v[i + 1][1]
              \/ v[i][1] = v[i + 1][1] /\ v[i][2] < v[i + 1][2]
        /\ GeneralPosition(v)}

InitCentroids ==
    /\ \E vertices \in VertexLists :
          \E triangles \in triangulate(vertices) :
             problem = SteinerProblemNew(vertices, <<>>, triangles)
    /\ population = <<>>
    /\ child_buffer = <<>>
    /\ current_generation = 0
    /\ function_evaluations = 0
    /\ edge_db = <<>>
    /\ pc = "seed"
    /\ frame = NoFrame
    /\ loop_data = LoopDataNew
    /\ twin = NoTwin
    /\ op = [name |-> "triangulate"]

\* the first seeding loop of StOBGA::new with t1 = 1
SeedStrategyA ==
    /\ pc = "seed"
    /\ \E individual \in SeedsA(problem) : population' = <<individual>>
    /\ pc' = "seeded"
    /\ op' = [name |-> "seed"]
    /\ UNCHANGED <<problem, child_buffer, current_generation,
                   function_evaluations, edge_db, frame, loop_data, twin>>

NextCentroids == SeedStrategyA

SpecCentroids == InitCentroids /\ [][NextCentroids]_vars

\* the centroids of the triangles of the triangulation of the problem's
\* terminals and corners
TriangleCentroids ==
    LET vertices == problem.terminals \o problem.obstacle_corners
    IN {centroid(vertices[t[1]], vertices[t[2]], vertices[t[3]]) :
           t \in DelaunayTriangles(vertices)}

\* C34: the problem's centroids are the centroids of the triangles of the
\* Delaunay triangulation of terminals and corners, one for each triangle,
\* and the Steiner points of a Strategy A individual are centroids of
\* triangles only
C34_CentroidsOfTriangles ==
    LET vertices == problem.terminals \o problem.obstacle_corners
        triangles == {{t[1], t[2], t[3]} : t \in DelaunayTriangles(vertices)}
    IN /\ Len(problem.centroids) = Cardinality(triangles)
       /\ SeqRange(problem.centroids) = TriangleCentroids
       /\ \A i \in DOMAIN population :
             population[i].chromosome.steiner_points \subseteq TriangleCentroids

(***************************************************************************)
(* The three seeding loops on a problem with an obstacle                   *)
(***************************************************************************)
InitSeeding ==
    /\ problem = SquareProblem
    /\ population = <<>>
    /\ child_buffer = <<>>
    /\ current_generation = 0
    /\ function_evaluations = 0
    /\ edge_db = <<>>
    /\ pc = "new"
    /\ frame = NoFrame
    /\ loop_data = LoopDataNew
    /\ twin = NoTwin
    /\ op = NoOp

\* the three seeding loops of StOBGA::new, every r of Strategy B drawn
SeedingLoops ==
    /\ pc = "new"
    /\ \E t \in TwoSeedCounts :
          /\ \E a \in [1..t[1] -> SeedsA(problem)],
                b \in [1..t[2] -> SeedsBWithin(problem,
                                     Len(problem.terminals)
                                        + Len(problem.obstacle_corners))],
                c \in [1..t[3] -> SeedsC(problem)] :
                population' = a \o b \o c
          /\ op' = [name |-> "seed", population_size |-> 2,
                    t1 |-> t[1], t2 |-> t[2], t3 |-> t[3]]
    /\ pc' = "seeded"
    /\ UNCHANGED <<problem, child_buffer, current_generation,
                   function_evaluations, edge_db, frame, loop_data, twin>>

NextSeeding == SeedingLoops

SpecSeeding == InitSeeding /\ [][NextSeeding]_vars

\* C35: after seeding there are t1 individuals of Strategy A, then t2 of
\* Strategy B, each with all k corners and at most n + k - 1 Steiner points,
\* then t3 of Strategy C, each with no Steiner point and between 0 and k
\* corners, all of them indices below k
C35_SeedingShapes ==
    pc = "seeded" =>
       LET k == Len(problem.obstacle_corners)
           n == Len(problem.terminals)
       IN /\ Len(population) = op.t1 + op.t2 + op.t3
          /\ \A i \in 1..op.t1 :
                /\ population[i].chromosome.steiner_points
                      = SeqRange(problem.centroids)
                /\ population[i].chromosome.included_corners = {}
          /\ \A i \in (op.t1 + 1)..(op.t1 + op.t2) :
                /\ population[i].chromosome.included_corners = 0..(k - 1)
                /\ Cardinality(population[i].chromosome.steiner_points)
                      <= n + k - 1
          /\ \A i \in (op.t1 + op.t2 + 1)..Len(population) :
                /\ population[i].chromosome.steiner_points = {}
                /\ population[i].chromosome.included_corners \subseteq 0..(k - 1)
                /\ Cardinality(population[i].chromosome.included_corners) \in 0..k
          /\ \A i \in DOMAIN population :
                population[i].minimum_spanning_tree = NoTree

\* a Strategy B individual with n + k - 1 Steiner points beside a Strategy C
\* individual with every corner
C35_Witness ==
    /\ pc = "seeded"
    /\ op.t2 = 1
    /\ op.t3 = 1
    /\ Cardinality(population[1].chromosome.steiner_points)
          = Len(problem.terminals) + Len(problem.obstacle_corners) - 1
    /\ Cardinality(population[2].chromosome.included_corners)
          = Len(problem.obstacle_corners)

\* the pairs of points build_mst asks the cache for when it builds the tree
\* of a chromosome, in the order it asks
PairsAsked(chromosome) ==
    LET vertices == SourceVertices(problem, chromosome)
        pairs == Combinations2(Len(vertices), 1, 2)
    IN {<<vertices[pairs[i][1]], vertices[pairs[i][2]]>> : i \in DOMAIN pairs}

\* C36: the edge cache is keyed by unordered pairs: it never holds both
\* (p, q) and (q, p) for p # q, and a step inserts only keys that the cache
\* held under neither order before (a length is computed and inserted on a
\* miss under both orders only, so once for an unordered pair over the run,
\* the cache being append-only)
C36_CacheKeyedByUnorderedPairs ==
    /\ [](\A key \in DOMAIN edge_db :
             key[1] # key[2] => <<key[2], key[1]>> \notin DOMAIN edge_db)
    /\ [][/\ \A key \in DOMAIN edge_db' \ DOMAIN edge_db :
                ~Cached(edge_db, key[1], key[2])
          /\ \A key \in DOMAIN edge_db :
                key \in DOMAIN edge_db' /\ edge_db'[key] = edge_db[key]]_vars

\* an individual was built whose pair (p, q), p # q, is in the cache as
\* (q, p) only: the lookup hit the entry stored under the other order
C36_Witness ==
    \E i \in DOMAIN population :
       /\ population[i].minimum_spanning_tree # NoTree
       /\ \E pair \in PairsAsked(population[i].chromosome) :
             /\ pair[1] # pair[2]
             /\ pair \notin DOMAIN edge_db
             /\ <<pair[2], pair[1]>> \in DOMAIN edge_db

(***************************************************************************)
(* The end of a generation on a population of several weights              *)
(***************************************************************************)
\* an engine in step after the mutation loop: six built individuals of three
\* chromosomes on three terminals, in ascending order of total_weight, and
\* two children of these chromosomes without tree
InitElite ==
    /\ problem = TriangleProblem
    /\ \E first \in Built(TriangleProblem, <<>>, NewIndividual({<<1, 1>>}, {})) :
       \E second \in Built(TriangleProblem, first.edge_db,
                           NewIndividual({<<1, 0>>}, {})) :
       \E third \in Built(TriangleProblem, second.edge_db, NewIndividual({}, {})) :
       \E ranks \in [1..POPULATION_SIZE -> 1..3] :
          /\ \A i, j \in 1..POPULATION_SIZE : i < j => ranks[i] <= ranks[j]
          /\ population \in sort_unstable_by(
                [i \in 1..POPULATION_SIZE |->
                    IF ranks[i] = 1 THEN first.individual
                    ELSE IF ranks[i] = 2 THEN second.individual
                    ELSE third.individual])
          /\ edge_db = third.edge_db
    /\ child_buffer \in [1..NUMBER_OFFSPRING ->
                            {NewIndividual({<<1, 1>>}, {}),
                             NewIndividual({<<1, 0>>}, {}),
                             NewIndividual({}, {})}]
    /\ current_generation = 1
    /\ function_evaluations = 0
    /\ pc = "step_eliminate"
    /\ frame = NoFrame
    /\ loop_data = LoopDataNew
    /\ twin = NoTwin
    /\ op = [name |-> "mutate"]

NextElite == StepEliminate \/ StepMerge

SpecElite == InitElite /\ [][NextElite]_vars

\* the least total_weight of a sequence of built individuals
BestWeight(individuals) ==
    LET weights == {individuals[i].minimum_spanning_tree.total_weight :
                       i \in DOMAIN individuals}
    IN CHOOSE w \in weights : \A v \in weights : w <= v

\* C37: the least total_weight of the population does not grow over the end
\* of a generation.  An elimination leaves it as it is, and removes a holder
\* of it only when at least TOURNAMENT_SIZE individuals hold it; the merge
\* adds the children and sorts, so the least weight afterwards is at most
\* the least before and is that of the first individual
C37_BestNeverWorse ==
    [][/\ (pc = "step_eliminate" /\ pc' # "panicked") =>
             /\ BestWeight(population') = BestWeight(population)
             /\ \A index \in DOMAIN population :
                   (/\ population' = Removed(population, index)
                    /\ Fitness(index) = BestWeight(population))
                      => Cardinality({j \in DOMAIN population :
                                         Fitness(j) = BestWeight(population)})
                            >= TOURNAMENT_SIZE
       /\ (pc = "step_merge" /\ pc' = "running") =>
             /\ BestWeight(population') <= BestWeight(population)
             /\ population'[1].minimum_spanning_tree.total_weight
                   = BestWeight(population')]_vars

\* the one lightest individual outlived both eliminations, the second of
\* which sampled it
C37_Witness ==
    /\ pc = "step_merge"
    /\ Len(population) = POPULATION_SIZE - NUMBER_OFFSPRING
    /\ Fitness(1) < Fitness(2)
    /\ Fitness(2) < Fitness(Len(population))

(***************************************************************************)
(* The loop of main to its end: the selection loop of step draw by draw,   *)
(* the rest of a generation by what it leaves                              *)
(***************************************************************************)
\* the generations the loop is followed through
MaxRunGeneration == 8

\* three built individuals on three terminals, lightest first
TriangleIndividuals ==
    LET a == SomeBuilt(TriangleProblem, Chromosome({<<1, 1>>}, {}))
        b == SomeBuilt(TriangleProblem, Chromosome({<<1, 0>>}, {}))
        c == SomeBuilt(TriangleProblem, Chromosome({}, {}))
    IN CHOOSE order \in sort_unstable_by(<<a.individual, b.individual, c.individual>>) :
          TRUE

\* the populations a generation can leave: POPULATION_SIZE of the three
\* individuals in ascending order of total_weight
TrianglePopulations ==
    {[i \in 1..POPULATION_SIZE |-> TriangleIndividuals[ranks[i]]] :
        ranks \in {r \in [1..POPULATION_SIZE -> 1..3] :
                      \A i, j \in 1..POPULATION_SIZE : i < j => r[i] <= r[j]}}

InitTermination ==
    /\ problem = TriangleProblem
    /\ population \in TrianglePopulations
    /\ edge_db = CacheAfter(TriangleProblem,
                    CacheAfter(TriangleProblem,
                       CacheAfter(TriangleProblem, <<>>, TriangleIndividuals[1]),
                       TriangleIndividuals[2]),
                    TriangleIndividuals[3])
    /\ child_buffer = <<>>
    /\ current_generation = 0
    /\ function_evaluations = 0
    /\ pc = "running"
    /\ frame = NoFrame
    /\ loop_data = LoopDataNew
    /\ twin = NoTwin
    /\ op = [name |-> "build_msts"]

\* one pass of the while loop of step: a tournament, and its winner inserted
\* into the set of indices (kept in ascending order here)
SelectParent ==
    /\ pc = "running"
    /\ ~StepReturned
    /\ current_generation < MaxRunGeneration
    /\ Len(frame.indices_to_recombine) < NUMBER_OFFSPRING
    /\ \E p1 \in tournament_select(TOURNAMENT_SIZE, FALSE) :
          frame' = [frame EXCEPT
                       !.indices_to_recombine = sorted(Append(@, p1))]
    /\ op' = [name |-> "tournament_select"]
    /\ UNCHANGED <<problem, population, child_buffer, current_generation,
                   function_evaluations, edge_db, pc, loop_data, twin>>

\* step after its while loop: a sorted population whose lightest individual
\* is no heavier than the lightest before
GenerationRest ==
    /\ pc = "running"
    /\ ~StepReturned
    /\ Len(frame.indices_to_recombine) = NUMBER_OFFSPRING
    /\ \E next \in TrianglePopulations :
          /\ next[1].minimum_spanning_tree.total_weight <= Fitness(1)
          /\ population' = next
    /\ current_generation' = current_generation + 1
    /\ frame' = NoFrame
    /\ op' = [name |-> "step"]
    /\ UNCHANGED <<problem, child_buffer, function_evaluations, edge_db, pc,
                   loop_data, twin>>

NextTermination == SelectParent \/ GenerationRest \/ LoopAfterStep

\* the program goes on while it can, and a tournament that can return an
\* index the set lacks does so in the end
SpecTermination ==
    /\ InitTermination
    /\ [][NextTermination]_vars
    /\ WF_vars(SelectParent)
    /\ WF_vars(GenerationRest)
    /\ WF_vars(LoopAfterStep)

\* C38: with total weights from a finite set and fair draws every run stops,
\* from LastGeneration; at the start of a generation at least
\* POPULATION_SIZE - 4 individuals can win a tournament of parents, which is
\* at least the NUMBER_OFFSPRING different winners the selection loop waits
\* for, and every selection loop that was begun ends
C38_Termination ==
    /\ <>(pc = "stopped")
    /\ [](pc = "stopped" => loop_data.state = "LastGeneration")
    /\ [](pc = "running" =>
            /\ Cardinality(tournament_select(TOURNAMENT_SIZE, FALSE))
                  >= POPULATION_SIZE - (TOURNAMENT_SIZE - 1)
            /\ POPULATION_SIZE - (TOURNAMENT_SIZE - 1) >= NUMBER_OFFSPRING)
    /\ (op.name = "tournament_select") ~> StepReturned

\* the loop has stopped after the recorded best was improved more than once
C38_Witness ==
    /\ pc = "stopped"
    /\ current_generation = 3 * RECESSION_DURATION + 2

====
